---- MODULE Spec2Model ----
(***************************************************************************)
(* GenCAD section builders (src/src/parser/sections/*.rs) as a state       *)
(* machine over the keyword/parameter lines of one section, followed by    *)
(* the serializer round trip of the sections that have a serializer.       *)
(*                                                                         *)
(* A line is [kw |-> keyword, p |-> parameter].  The parameter text of a   *)
(* line is one token: p = 0 is text that does not match the grammar of the *)
(* keyword, p > 0 is well-formed text and stands for the value(s) decoded  *)
(* from it.  An absent Option is None; an Option<T> parser state is a      *)
(* sequence of length 0 or 1.                                              *)
(***************************************************************************)
EXTENDS Integers, Sequences, FiniteSets, TLC

VARIABLES
  sec,       \* name of the section being built
  input,     \* the keyword/parameter lines of the section read so far
  left,      \* how many more lines the section may hold
  ps,        \* state of the section builder
  phase,     \* "parsing", "failed", "done", "serialized", "reparsed", "reserialized"
  err,       \* the Err returned by the builder, NoErr while there is none
  result,    \* << value >> once the builder has returned Ok(value)
  text,      \* result serialized
  reparsed,  \* << ParseSection of text >>
  retext,    \* the reparsed value serialized again
  file,      \* the `$NAME ... $ENDNAME` blocks of a file lexed so far
  sections,  \* the section entries built from the blocks of the file
  other      \* the locals of a second call that runs on another thread

vars ==
  <<sec, input, left, ps, phase, err, result, text, reparsed, retext, file, sections, other>>

\* Longest keyword list fed to one section builder.
MaxLines == 3

\* Lines read after the six lines of a header that lacks one required field.
MaxHeaderLines == 2

None == 0

Sections ==
  {"HEADER", "BOARD", "PADS", "PADSTACKS", "SHAPES", "COMPONENTS", "DEVICES",
   "SIGNALS", "UNKNOWN"}

\* the sections with a builder of their own; any other name is kept as Unknown
KnownSections == Sections \ {"UNKNOWN"}

Line(kw, p) == [kw |-> kw, p |-> p]

Bad(kp) == kp.p = 0

NoErr == [kind |-> "none", ctx |-> "", kw |-> ""]

\* nom error of a primitive parser: carries the unconsumed input, no keyword
GrammarErr == [kind |-> "grammar", ctx |-> "", kw |-> ""]

\* format!("Unexpected keyword in <ctx>: {}", kp.keyword)
Unexpected(ctx, kw) == [kind |-> "unexpected", ctx |-> ctx, kw |-> kw]

Ok(st) == [st |-> st, err |-> NoErr]

Fail(st, e) == [st |-> st, err |-> e]

Last(s) == s[Len(s)]

(***************************************************************************)
(* HEADER: Header::new                                                     *)
(***************************************************************************)
HeaderFields ==
  {"GENCAD", "USER", "DRAWING", "REVISION", "UNITS", "ORIGIN", "INTERTRACK"}

HeaderInit ==
  [GENCAD |-> None, USER |-> None, DRAWING |-> None, REVISION |-> None,
   UNITS |-> None, ORIGIN |-> None, INTERTRACK |-> None, attributes |-> <<>>]

HeaderStep(h, kp) ==
  IF kp.kw \in HeaderFields
  THEN IF h[kp.kw] = None
       THEN IF Bad(kp) THEN Fail(h, GrammarErr)
                       ELSE Ok([h EXCEPT ![kp.kw] = kp.p])
       ELSE Ok(h)
  ELSE IF kp.kw = "ATTRIBUTE"
       THEN IF Bad(kp) THEN Fail(h, GrammarErr)
                       ELSE Ok([h EXCEPT !.attributes = Append(@, kp.p)])
       ELSE Ok(h)

\* the ok_or chain of Header::new with the messages of its last two links
\* exchanged
HeaderMissingExchanged(h) ==
  IF h.GENCAD = None THEN "GENCAD"
  ELSE IF h.USER = None THEN "USER"
  ELSE IF h.DRAWING = None THEN "DRAWING"
  ELSE IF h.REVISION = None THEN "REVISION"
  ELSE IF h.UNITS = None THEN "UNITS"
  ELSE IF h.ORIGIN = None THEN "INTERTRACK"
  ELSE IF h.INTERTRACK = None THEN "ORIGIN"
  ELSE ""

HeaderMissing(h) ==
  IF h.GENCAD = None THEN "GENCAD"
  ELSE IF h.USER = None THEN "USER"
  ELSE IF h.DRAWING = None THEN "DRAWING"
  ELSE IF h.REVISION = None THEN "REVISION"
  ELSE IF h.UNITS = None THEN "UNITS"
  ELSE IF h.ORIGIN = None THEN "ORIGIN"
  ELSE IF h.INTERTRACK = None THEN "INTERTRACK"
  ELSE ""

HeaderFinalize(h) ==
  IF HeaderMissing(h) = ""
  THEN Ok(h)
  ELSE Fail(h, [kind |-> "missing", ctx |-> "header", kw |-> HeaderMissing(h)])

(***************************************************************************)
(* BOARD: Board::new                                                       *)
(***************************************************************************)
GeomKw == {"LINE", "ARC", "CIRCLE", "RECTANGLE"}

GeomKind(kw) ==
  CASE kw = "LINE" -> "Line"
    [] kw = "ARC" -> "Arc"
    [] kw = "CIRCLE" -> "Circle"
    [] kw = "RECTANGLE" -> "Rectangle"
    [] kw = "FIDUCIAL" -> "Fiducial"

Elem(kind, v) == [kind |-> kind, v |-> v]

Cutout(name) == [kind |-> "Cutout", name |-> name, shapes |-> <<>>, attributes |-> <<>>]

Mask(name, layer) ==
  [kind |-> "Mask", name |-> name, layer |-> layer, shapes |-> <<>>, attributes |-> <<>>]

BoardArtwork(name, layer) ==
  [kind |-> "Artwork", name |-> name, layer |-> layer, components |-> <<>>,
   attributes |-> <<>>]

BoardInit ==
  [thickness |-> None, outline_shapes |-> <<>>, attributes |-> <<>>,
   subsections |-> <<>>, parser_state |-> <<>>]

BoardThickness(b, kp) ==
  IF b.parser_state = <<>> /\ b.thickness = None
  THEN IF Bad(kp) THEN Fail(b, GrammarErr) ELSE Ok([b EXCEPT !.thickness = kp.p])
  ELSE Ok(b)

BoardGeom(b, kp) ==
  IF Bad(kp) THEN Fail(b, GrammarErr)
  ELSE IF b.parser_state # <<>>
       THEN LET sub == b.parser_state[1]
                el == Elem(GeomKind(kp.kw), kp.p)
            IN Ok([b EXCEPT !.parser_state =
                     << IF sub.kind = "Artwork"
                        THEN [sub EXCEPT !.components = Append(@, el)]
                        ELSE [sub EXCEPT !.shapes = Append(@, el)] >>])
       ELSE Ok([b EXCEPT !.outline_shapes = Append(@, Elem(GeomKind(kp.kw), kp.p))])

\* Board::new with the ATTRIBUTE arm ignoring the open subsection
BoardAttributeToBoard(b, kp) ==
  IF Bad(kp) THEN Fail(b, GrammarErr)
  ELSE Ok([b EXCEPT !.attributes = Append(@, kp.p)])

BoardAttribute(b, kp) ==
  IF Bad(kp) THEN Fail(b, GrammarErr)
  ELSE IF b.parser_state # <<>>
       THEN Ok([b EXCEPT !.parser_state = << [@[1] EXCEPT !.attributes = Append(@, kp.p)] >>])
       ELSE Ok([b EXCEPT !.attributes = Append(@, kp.p)])

ArtworkOnlyKind(kw) ==
  CASE kw = "TRACK" -> "Track" [] kw = "FILLED" -> "Filled" [] kw = "TEXT" -> "Text"

\* "<KW> is only supported in ARTWORK section!"
ArtworkOnlyErr(kw) == [kind |-> "artwork_only", ctx |-> "board", kw |-> kw]

\* the artwork-only arms of Board::new letting the line pass while a Cutout
\* or Mask is open
BoardArtworkOnlyAnySubsection(b, kp) ==
  IF Bad(kp) THEN Fail(b, GrammarErr)
  ELSE IF b.parser_state # <<>> /\ b.parser_state[1].kind = "Artwork"
       THEN Ok([b EXCEPT !.parser_state =
                  << [@[1] EXCEPT !.components = Append(@, Elem(ArtworkOnlyKind(kp.kw), kp.p))] >>])
       ELSE IF b.parser_state # <<>> THEN Ok(b) ELSE Fail(b, ArtworkOnlyErr(kp.kw))

BoardArtworkOnly(b, kp) ==
  IF Bad(kp) THEN Fail(b, GrammarErr)
  ELSE IF b.parser_state # <<>> /\ b.parser_state[1].kind = "Artwork"
       THEN Ok([b EXCEPT !.parser_state =
                  << [@[1] EXCEPT !.components = Append(@, Elem(ArtworkOnlyKind(kp.kw), kp.p))] >>])
       ELSE Fail(b, ArtworkOnlyErr(kp.kw))

BoardSubsection(b, kp) ==
  LET flushed == [b EXCEPT !.subsections = @ \o b.parser_state, !.parser_state = <<>>]
  IN IF Bad(kp) THEN Fail(flushed, GrammarErr)
     ELSE Ok([flushed EXCEPT !.parser_state =
                << CASE kp.kw = "CUTOUT" -> Cutout(kp.p)
                     [] kp.kw = "MASK" -> Mask(kp.p, kp.p)
                     [] kp.kw = "ARTWORK" -> BoardArtwork(kp.p, kp.p) >>])

BoardStep(b, kp) ==
  CASE kp.kw = "THICKNESS" -> BoardThickness(b, kp)
    [] kp.kw \in GeomKw -> BoardGeom(b, kp)
    [] kp.kw = "ATTRIBUTE" -> BoardAttribute(b, kp)
    [] kp.kw \in {"TRACK", "FILLED", "TEXT"} -> BoardArtworkOnly(b, kp)
    [] kp.kw \in {"CUTOUT", "MASK", "ARTWORK"} -> BoardSubsection(b, kp)
    [] OTHER -> Ok(b)

BoardValue(b) ==
  [thickness |-> b.thickness, outline_shapes |-> b.outline_shapes,
   attributes |-> b.attributes, subsections |-> b.subsections]

BoardFinalize(b) ==
  Ok(BoardValue([b EXCEPT !.subsections = @ \o b.parser_state]))

(***************************************************************************)
(* PADS: parse_pads                                                        *)
(***************************************************************************)
Pad(name, ptype, drill_size) ==
  [name |-> name, ptype |-> ptype, drill_size |-> drill_size, shapes |-> <<>>,
   attributes |-> <<>>]

PadsInit == [pads |-> <<>>, parser_state |-> <<>>]

PadsGeom(s, kp) ==
  IF s.parser_state # <<>>
  THEN IF Bad(kp) THEN Fail(s, GrammarErr)
       ELSE Ok([s EXCEPT !.parser_state =
                  << [@[1] EXCEPT !.shapes = Append(@, Elem(GeomKind(kp.kw), kp.p))] >>])
  ELSE Ok(s)

PadsAttribute(s, kp) ==
  IF s.parser_state # <<>>
  THEN IF Bad(kp) THEN Fail(s, GrammarErr)
       ELSE Ok([s EXCEPT !.parser_state = << [@[1] EXCEPT !.attributes = Append(@, kp.p)] >>])
  ELSE Ok(s)

\* the PAD arm putting the flushed pad at the head of the list
PadsPadAtHead(s, kp) ==
  LET flushed == [s EXCEPT !.pads = s.parser_state \o @, !.parser_state = <<>>]
  IN IF Bad(kp) THEN Fail(flushed, GrammarErr)
     ELSE Ok([flushed EXCEPT !.parser_state = << Pad(kp.p, kp.p, kp.p) >>])

PadsPad(s, kp) ==
  LET flushed == [s EXCEPT !.pads = @ \o s.parser_state, !.parser_state = <<>>]
  IN IF Bad(kp) THEN Fail(flushed, GrammarErr)
     ELSE Ok([flushed EXCEPT !.parser_state = << Pad(kp.p, kp.p, kp.p) >>])

PadsStep(s, kp) ==
  CASE kp.kw \in GeomKw -> PadsGeom(s, kp)
    [] kp.kw = "ATTRIBUTE" -> PadsAttribute(s, kp)
    [] kp.kw = "PAD" -> PadsPad(s, kp)
    [] OTHER -> Ok(s)

PadsFinalize(s) == Ok(s.pads \o s.parser_state)

(***************************************************************************)
(* PADSTACKS: PadstacksParser                                              *)
(***************************************************************************)
Padstack(name, drill_size) == [name |-> name, drill_size |-> drill_size, pads |-> <<>>]

PadstackUpdate(d, kp) ==
  IF kp.kw = "PAD"
  THEN IF Bad(kp) THEN Fail(d, GrammarErr) ELSE Ok([d EXCEPT !.pads = Append(@, kp.p)])
  ELSE Fail(d, Unexpected("padstack", kp.kw))

PadstacksInit == [state |-> <<>>, padstacks |-> <<>>, attributes |-> <<>>]

PadstacksAttribute(s, kp) ==
  IF Bad(kp) THEN Fail(s, GrammarErr) ELSE Ok([s EXCEPT !.attributes = Append(@, kp.p)])

PadstacksIngest(s, kp) ==
  IF s.state # <<>>
  THEN CASE kp.kw = "PADSTACK" ->
              IF Bad(kp) THEN Fail(s, GrammarErr)
              ELSE Ok([s EXCEPT !.padstacks = @ \o s.state,
                                !.state = << Padstack(kp.p, kp.p) >>])
         [] kp.kw = "ATTRIBUTE" -> PadstacksAttribute(s, kp)
         [] OTHER ->
              LET r == PadstackUpdate(s.state[1], kp)
              IN [st |-> [s EXCEPT !.state = << r.st >>], err |-> r.err]
  ELSE CASE kp.kw = "PADSTACK" ->
              IF Bad(kp) THEN Fail(s, GrammarErr)
              ELSE Ok([s EXCEPT !.state = << Padstack(kp.p, kp.p) >>])
         [] kp.kw = "ATTRIBUTE" -> PadstacksAttribute(s, kp)
         [] OTHER -> Fail(s, Unexpected("padstacks", kp.kw))

PadstacksFinalize(s) ==
  Ok([padstacks |-> s.padstacks \o s.state, attributes |-> s.attributes])

(***************************************************************************)
(* SIGNALS: SignalsParser                                                  *)
(***************************************************************************)
Signal(name) == [name |-> name, nodes |-> <<>>, nail_locations |-> <<>>]

\* Signal::update with NODE put in front of the nodes already held
SignalUpdatePrepends(d, kp) ==
  CASE kp.kw = "NODE" ->
         IF Bad(kp) THEN Fail(d, GrammarErr) ELSE Ok([d EXCEPT !.nodes = <<kp.p>> \o @])
    [] kp.kw = "NAILLOC" ->
         IF Bad(kp) THEN Fail(d, GrammarErr)
         ELSE Ok([d EXCEPT !.nail_locations = Append(@, kp.p)])
    [] OTHER -> Fail(d, Unexpected("signal", kp.kw))

SignalUpdate(d, kp) ==
  CASE kp.kw = "NODE" ->
         IF Bad(kp) THEN Fail(d, GrammarErr) ELSE Ok([d EXCEPT !.nodes = Append(@, kp.p)])
    [] kp.kw = "NAILLOC" ->
         IF Bad(kp) THEN Fail(d, GrammarErr)
         ELSE Ok([d EXCEPT !.nail_locations = Append(@, kp.p)])
    [] OTHER -> Fail(d, Unexpected("signal", kp.kw))

SignalsInit == [state |-> <<>>, signals |-> <<>>, attributes |-> <<>>]

SignalsAttribute(s, kp) ==
  IF Bad(kp) THEN Fail(s, GrammarErr) ELSE Ok([s EXCEPT !.attributes = Append(@, kp.p)])

SignalsIngest(s, kp) ==
  IF s.state # <<>>
  THEN CASE kp.kw = "SIGNAL" ->
              IF Bad(kp) THEN Fail(s, GrammarErr)
              ELSE Ok([s EXCEPT !.signals = @ \o s.state, !.state = << Signal(kp.p) >>])
         [] kp.kw = "ATTRIBUTE" -> SignalsAttribute(s, kp)
         [] OTHER ->
              LET r == SignalUpdate(s.state[1], kp)
              IN [st |-> [s EXCEPT !.state = << r.st >>], err |-> r.err]
  ELSE CASE kp.kw = "SIGNAL" ->
              IF Bad(kp) THEN Fail(s, GrammarErr)
              ELSE Ok([s EXCEPT !.state = << Signal(kp.p) >>])
         [] kp.kw = "ATTRIBUTE" -> SignalsAttribute(s, kp)
         [] OTHER -> Fail(s, Unexpected("signals", kp.kw))

SignalsFinalize(s) ==
  Ok([signals |-> s.signals \o s.state, attributes |-> s.attributes])

(***************************************************************************)
(* DEVICES: Device::update, DevicesParser                                  *)
(***************************************************************************)
DeviceScalars ==
  {"PART", "TYPE", "STYLE", "PACKAGE", "PINCOUNT", "VALUE", "TOL", "NTOL", "PTOL",
   "VOLTS", "DESC"}

Device(name) ==
  [name |-> name, PART |-> None, TYPE |-> None, STYLE |-> None, PACKAGE |-> None,
   pin_descriptions |-> <<>>, pin_functions |-> <<>>, PINCOUNT |-> None,
   VALUE |-> None, TOL |-> None, NTOL |-> None, PTOL |-> None, VOLTS |-> None,
   DESC |-> None, attributes |-> <<>>]

\* Device::update with the scalar arms overwriting a field already set
DeviceUpdateLastWins(d, kp) ==
  CASE kp.kw \in DeviceScalars ->
         IF Bad(kp) THEN Fail(d, GrammarErr) ELSE Ok([d EXCEPT ![kp.kw] = kp.p])
    [] kp.kw = "PINDESC" ->
         IF Bad(kp) THEN Fail(d, GrammarErr)
         ELSE Ok([d EXCEPT !.pin_descriptions = Append(@, kp.p)])
    [] kp.kw = "PINFUNCT" ->
         IF Bad(kp) THEN Fail(d, GrammarErr)
         ELSE Ok([d EXCEPT !.pin_functions = Append(@, kp.p)])
    [] kp.kw = "ATTRIBUTE" ->
         IF Bad(kp) THEN Fail(d, GrammarErr)
         ELSE Ok([d EXCEPT !.attributes = Append(@, kp.p)])
    [] OTHER -> Fail(d, Unexpected("component", kp.kw))

DeviceUpdate(d, kp) ==
  CASE kp.kw \in DeviceScalars ->
         IF d[kp.kw] = None
         THEN IF Bad(kp) THEN Fail(d, GrammarErr) ELSE Ok([d EXCEPT ![kp.kw] = kp.p])
         ELSE Ok(d)
    [] kp.kw = "PINDESC" ->
         IF Bad(kp) THEN Fail(d, GrammarErr)
         ELSE Ok([d EXCEPT !.pin_descriptions = Append(@, kp.p)])
    [] kp.kw = "PINFUNCT" ->
         IF Bad(kp) THEN Fail(d, GrammarErr)
         ELSE Ok([d EXCEPT !.pin_functions = Append(@, kp.p)])
    [] kp.kw = "ATTRIBUTE" ->
         IF Bad(kp) THEN Fail(d, GrammarErr)
         ELSE Ok([d EXCEPT !.attributes = Append(@, kp.p)])
    [] OTHER -> Fail(d, Unexpected("component", kp.kw))

DevicesInit == [state |-> <<>>, devices |-> <<>>]

DevicesIngest(s, kp) ==
  IF s.state # <<>>
  THEN IF kp.kw = "DEVICE"
       THEN IF Bad(kp) THEN Fail(s, GrammarErr)
            ELSE Ok([s EXCEPT !.devices = @ \o s.state, !.state = << Device(kp.p) >>])
       ELSE LET r == DeviceUpdate(s.state[1], kp)
            IN [st |-> [s EXCEPT !.state = << r.st >>], err |-> r.err]
  ELSE IF kp.kw = "DEVICE"
       THEN IF Bad(kp) THEN Fail(s, GrammarErr)
            ELSE Ok([s EXCEPT !.state = << Device(kp.p) >>])
       ELSE Fail(s, Unexpected("devices", kp.kw))

DevicesFinalize(s) == Ok(s.devices \o s.state)

(***************************************************************************)
(* Unknown sections: Unknown::new                                          *)
(***************************************************************************)
UnknownInit(name) == [name |-> name, statements |-> <<>>]

\* Unknown::new collecting the statements in reverse
UnknownStepPrepends(u, kp) ==
  Ok([u EXCEPT !.statements = <<[keyword |-> kp.kw, parameter |-> kp.p]>> \o @])

UnknownStep(u, kp) ==
  Ok([u EXCEPT !.statements = Append(@, [keyword |-> kp.kw, parameter |-> kp.p])])

UnknownFinalize(u) == Ok(u)

(***************************************************************************)
(* SHAPES: ShapeParser, ShapesParser                                       *)
(***************************************************************************)
SubKw == {"ARTWORK", "FID", "PIN"}

SubKind(kw) ==
  CASE kw = "ARTWORK" -> "Artwork" [] kw = "FID" -> "Fid" [] kw = "PIN" -> "Pin"

\* Artwork / Fid / Pin ::from_parameters: the placement and an empty attribute list
SubShape(kind, name) == [kind |-> kind, name |-> name, attributes |-> <<>>]

\* ShapeParser::from_parameters
ShapeParser(name, insert) ==
  [state |-> <<>>,
   shape |-> [name |-> name, elements |-> <<>>, insert |-> insert, height |-> None,
              subshapes |-> <<>>, attributes |-> <<>>]]

\* ShapeParser::done
ShapeParserDone(parser) ==
  [parser EXCEPT !.shape.subshapes = @ \o parser.state, !.state = <<>>]

ShapeOpenSub(parser, kp) ==
  IF Bad(kp) THEN Fail(parser, GrammarErr)
  ELSE Ok([parser EXCEPT !.state = << SubShape(SubKind(kp.kw), kp.p) >>])

\* ShapeParser::ingest, state ShapeParserState::Shape
ShapeIngestShape(parser, kp) ==
  CASE kp.kw \in GeomKw \cup {"FIDUCIAL"} ->
         IF Bad(kp) THEN Fail(parser, GrammarErr)
         ELSE Ok([parser EXCEPT !.shape.elements = Append(@, Elem(GeomKind(kp.kw), kp.p))])
    [] kp.kw = "INSERT" ->
         IF Bad(kp) THEN Fail(parser, GrammarErr)
         ELSE Ok([parser EXCEPT !.shape.insert = kp.p])
    [] kp.kw = "HEIGHT" ->
         IF Bad(kp) THEN Fail(parser, GrammarErr)
         ELSE Ok([parser EXCEPT !.shape.height = kp.p])
    [] kp.kw = "ATTRIBUTE" ->
         IF Bad(kp) THEN Fail(parser, GrammarErr)
         ELSE Ok([parser EXCEPT !.shape.attributes = Append(@, kp.p)])
    [] kp.kw \in SubKw -> ShapeOpenSub(parser, kp)
    [] OTHER -> Fail(parser, Unexpected("shape", kp.kw))

\* ShapeParser::ingest with the sub-record arms missing their self.done()
ShapeIngestSubShapeNoDone(parser, kp) ==
  CASE kp.kw = "ATTRIBUTE" ->
         IF Bad(kp) THEN Fail(parser, GrammarErr)
         ELSE Ok([parser EXCEPT !.state = << [@[1] EXCEPT !.attributes = Append(@, kp.p)] >>])
    [] kp.kw \in SubKw -> ShapeOpenSub(parser, kp)
    [] OTHER -> Fail(parser, Unexpected("subshape", kp.kw))

\* ShapeParser::ingest, state ShapeParserState::SubShape
ShapeIngestSubShape(parser, kp) ==
  CASE kp.kw = "ATTRIBUTE" ->
         IF Bad(kp) THEN Fail(parser, GrammarErr)
         ELSE Ok([parser EXCEPT !.state = << [@[1] EXCEPT !.attributes = Append(@, kp.p)] >>])
    [] kp.kw \in SubKw -> ShapeOpenSub(ShapeParserDone(parser), kp)
    [] OTHER -> Fail(parser, Unexpected("subshape", kp.kw))

ShapeParserIngest(parser, kp) ==
  IF parser.state = <<>> THEN ShapeIngestShape(parser, kp)
                         ELSE ShapeIngestSubShape(parser, kp)

ShapesInit == [state |-> <<>>, insert |-> None, shapes |-> <<>>]

ShapesInsert(s, kp) ==
  IF Bad(kp) THEN Fail(s, GrammarErr) ELSE Ok([s EXCEPT !.insert = kp.p])

\* ShapesParser::ingest opening the new shape without the default insert
ShapesShapeNoDefault(s, kp) ==
  LET flushed ==
        IF s.state # <<>>
        THEN [s EXCEPT !.shapes = Append(@, ShapeParserDone(s.state[1]).shape)]
        ELSE s
  IN IF Bad(kp) THEN Fail(flushed, GrammarErr)
     ELSE Ok([flushed EXCEPT !.state = << ShapeParser(kp.p, None) >>])

ShapesShape(s, kp) ==
  LET flushed ==
        IF s.state # <<>>
        THEN [s EXCEPT !.shapes = Append(@, ShapeParserDone(s.state[1]).shape)]
        ELSE s
  IN IF Bad(kp) THEN Fail(flushed, GrammarErr)
     ELSE Ok([flushed EXCEPT !.state = << ShapeParser(kp.p, s.insert) >>])

ShapesIngest(s, kp) ==
  IF s.state # <<>>
  THEN CASE kp.kw = "SHAPE" -> ShapesShape(s, kp)
         [] kp.kw = "INSERT" -> ShapesInsert(s, kp)
         [] OTHER ->
              LET r == ShapeParserIngest(s.state[1], kp)
              IN [st |-> [s EXCEPT !.state = << r.st >>], err |-> r.err]
  ELSE CASE kp.kw = "SHAPE" -> ShapesShape(s, kp)
         [] kp.kw = "INSERT" -> ShapesInsert(s, kp)
         [] OTHER -> Fail(s, Unexpected("shapes", kp.kw))

\* ShapesParser::finalize without its push of the open shape
ShapesFinalizeDropsOpen(s) == Ok(s.shapes)

ShapesFinalize(s) ==
  IF s.state # <<>>
  THEN Ok(Append(s.shapes, ShapeParserDone(s.state[1]).shape))
  ELSE Ok(s.shapes)

(***************************************************************************)
(* COMPONENTS: ComponentPrototype, ComponentParser, ComponentsParser       *)
(***************************************************************************)
ComponentRequired == {"DEVICE", "PLACE", "LAYER", "ROTATION", "SHAPE"}

ComponentFirstWins == ComponentRequired \cup {"SHEET"}

SubComponentKw == {"ARTWORK", "FID"}

SubComponent(kind, name) == [kind |-> kind, name |-> name, attributes |-> <<>>]

\* ComponentParser::from_parameters
ComponentParser(name) ==
  [state |-> <<>>,
   prototype |-> [name |-> name, DEVICE |-> None, PLACE |-> None, LAYER |-> None,
                  ROTATION |-> None, SHAPE |-> None, subcomponents |-> <<>>,
                  texts |-> <<>>, SHEET |-> None, attributes |-> <<>>]]

\* ComponentPrototype::to_component: ok_or("") on each required field
ToComponent(prototype) ==
  IF \E f \in ComponentRequired : prototype[f] = None
  THEN Fail(prototype, [kind |-> "missing", ctx |-> "component", kw |-> ""])
  ELSE Ok(prototype)

\* ComponentParser::done
ComponentParserDone(parser) ==
  [parser EXCEPT !.prototype.subcomponents = @ \o parser.state, !.state = <<>>]

\* the field arms shared by both states of ComponentParser::ingest
ComponentField(parser, kp) ==
  CASE kp.kw \in ComponentFirstWins ->
         IF parser.prototype[kp.kw] = None
         THEN IF Bad(kp) THEN Fail(parser, GrammarErr)
              ELSE Ok([parser EXCEPT !.prototype[kp.kw] = kp.p])
         ELSE Ok(parser)
    [] kp.kw = "TEXT" ->
         IF Bad(kp) THEN Fail(parser, GrammarErr)
         ELSE Ok([parser EXCEPT !.prototype.texts = Append(@, kp.p)])

ComponentOpenSub(parser, kp) ==
  IF Bad(kp) THEN Fail(parser, GrammarErr)
  ELSE Ok([parser EXCEPT !.state = << SubComponent(SubKind(kp.kw), kp.p) >>])

\* ComponentParser::ingest, state ComponentParserState::Component
ComponentIngestComponent(parser, kp) ==
  CASE kp.kw \in ComponentFirstWins \cup {"TEXT"} -> ComponentField(parser, kp)
    [] kp.kw = "ATTRIBUTE" ->
         IF Bad(kp) THEN Fail(parser, GrammarErr)
         ELSE Ok([parser EXCEPT !.prototype.attributes = Append(@, kp.p)])
    [] kp.kw \in SubComponentKw -> ComponentOpenSub(parser, kp)
    [] OTHER -> Fail(parser, Unexpected("component", kp.kw))

\* ComponentParser::ingest with ATTRIBUTE pushed onto the component while a
\* subcomponent is open
ComponentIngestSubComponentAttrToComponent(parser, kp) ==
  CASE kp.kw \in ComponentFirstWins \cup {"TEXT"} ->
         ComponentField(ComponentParserDone(parser), kp)
    [] kp.kw = "ATTRIBUTE" ->
         IF Bad(kp) THEN Fail(parser, GrammarErr)
         ELSE Ok([parser EXCEPT !.prototype.attributes = Append(@, kp.p)])
    [] kp.kw \in SubComponentKw -> ComponentOpenSub(ComponentParserDone(parser), kp)
    [] OTHER -> Fail(parser, Unexpected("subcomponent", kp.kw))

\* ComponentParser::ingest, state ComponentParserState::SubComponent
ComponentIngestSubComponent(parser, kp) ==
  CASE kp.kw \in ComponentFirstWins \cup {"TEXT"} ->
         ComponentField(ComponentParserDone(parser), kp)
    [] kp.kw = "ATTRIBUTE" ->
         IF Bad(kp) THEN Fail(parser, GrammarErr)
         ELSE Ok([parser EXCEPT !.state = << [@[1] EXCEPT !.attributes = Append(@, kp.p)] >>])
    [] kp.kw \in SubComponentKw -> ComponentOpenSub(ComponentParserDone(parser), kp)
    [] OTHER -> Fail(parser, Unexpected("subcomponent", kp.kw))

ComponentParserIngest(parser, kp) ==
  IF parser.state = <<>> THEN ComponentIngestComponent(parser, kp)
                         ELSE ComponentIngestSubComponent(parser, kp)

ComponentsInit == [state |-> <<>>, components |-> <<>>]

\* ComponentsParser::ingest opening the new component without pushing the
\* open one
ComponentsComponentNoFlush(s, kp) ==
  IF Bad(kp) THEN Fail(s, GrammarErr)
  ELSE Ok([s EXCEPT !.state = << ComponentParser(kp.p) >>])

ComponentsComponent(s, kp) ==
  IF s.state # <<>>
  THEN LET c == ToComponent(ComponentParserDone(s.state[1]).prototype)
       IN IF c.err # NoErr THEN Fail(s, c.err)
          ELSE IF Bad(kp) THEN Fail(s, GrammarErr)
          ELSE Ok([s EXCEPT !.components = Append(@, c.st),
                            !.state = << ComponentParser(kp.p) >>])
  ELSE IF Bad(kp) THEN Fail(s, GrammarErr)
       ELSE Ok([s EXCEPT !.state = << ComponentParser(kp.p) >>])

ComponentsIngest(s, kp) ==
  IF s.state # <<>>
  THEN IF kp.kw = "COMPONENT" THEN ComponentsComponent(s, kp)
       ELSE LET r == ComponentParserIngest(s.state[1], kp)
            IN [st |-> [s EXCEPT !.state = << r.st >>], err |-> r.err]
  ELSE IF kp.kw = "COMPONENT" THEN ComponentsComponent(s, kp)
       ELSE Fail(s, Unexpected("components", kp.kw))

ComponentsFinalize(s) ==
  IF s.state # <<>>
  THEN LET c == ToComponent(ComponentParserDone(s.state[1]).prototype)
       IN IF c.err # NoErr THEN Fail(s.components, c.err)
          ELSE Ok(Append(s.components, c.st))
  ELSE Ok(s.components)

(***************************************************************************)
(* Dispatch on the section name: ParsedGencadFile::new                     *)
(***************************************************************************)
InitState(s) ==
  CASE s = "HEADER" -> HeaderInit
    [] s = "BOARD" -> BoardInit
    [] s = "PADS" -> PadsInit
    [] s = "PADSTACKS" -> PadstacksInit
    [] s = "SHAPES" -> ShapesInit
    [] s = "COMPONENTS" -> ComponentsInit
    [] s = "DEVICES" -> DevicesInit
    [] s = "SIGNALS" -> SignalsInit
    [] OTHER -> UnknownInit(s)

Step(s, st, kp) ==
  CASE s = "HEADER" -> HeaderStep(st, kp)
    [] s = "BOARD" -> BoardStep(st, kp)
    [] s = "PADS" -> PadsStep(st, kp)
    [] s = "PADSTACKS" -> PadstacksIngest(st, kp)
    [] s = "SHAPES" -> ShapesIngest(st, kp)
    [] s = "COMPONENTS" -> ComponentsIngest(st, kp)
    [] s = "DEVICES" -> DevicesIngest(st, kp)
    [] s = "SIGNALS" -> SignalsIngest(st, kp)
    [] OTHER -> UnknownStep(st, kp)

Finalize(s, st) ==
  CASE s = "HEADER" -> HeaderFinalize(st)
    [] s = "BOARD" -> BoardFinalize(st)
    [] s = "PADS" -> PadsFinalize(st)
    [] s = "PADSTACKS" -> PadstacksFinalize(st)
    [] s = "SHAPES" -> ShapesFinalize(st)
    [] s = "COMPONENTS" -> ComponentsFinalize(st)
    [] s = "DEVICES" -> DevicesFinalize(st)
    [] s = "SIGNALS" -> SignalsFinalize(st)
    [] OTHER -> UnknownFinalize(st)

\* the `for param in params { ...? }` loop of a section builder, from line i on
RECURSIVE RunFrom(_, _, _, _)
RunFrom(s, st, lines, i) ==
  IF i > Len(lines) THEN Ok(st)
  ELSE LET r == Step(s, st, lines[i])
       IN IF r.err # NoErr THEN r ELSE RunFrom(s, r.st, lines, i + 1)

\* a whole section builder: Ok(value) is <<value>>, Err(e) is <<>> with err = e
ParseSection(s, lines) ==
  LET r == RunFrom(s, InitState(s), lines, 1)
  IN IF r.err # NoErr THEN [err |-> r.err, value |-> <<>>]
     ELSE LET f == Finalize(s, r.st)
          IN IF f.err # NoErr THEN [err |-> f.err, value |-> <<>>]
             ELSE [err |-> NoErr, value |-> << f.st >>]

(***************************************************************************)
(* Serializer: ToGencadString.  A text is the sequence of its lines, the   *)
(* "\r\n" of join() being the boundary between two of them; an empty       *)
(* string pushed onto `lines` is a blank line.                             *)
(***************************************************************************)
Blank == [kw |-> "", p |-> 0]

Delim(name) == [kw |-> name, p |-> 0]

RECURSIVE Concat(_)
Concat(seqs) == IF seqs = <<>> THEN <<>> ELSE Head(seqs) \o Concat(Tail(seqs))

\* impl_to_gencad_string_for_vec: items joined by "\r\n", "" for an empty Vec
VecText(items) == IF items = <<>> THEN << Blank >> ELSE Concat(items)

\* impl_to_gencad_string_for_section: header, the items, footer
SectionText(header, items, footer) ==
  << Delim(header) >> \o Concat(items) \o << Delim(footer) >>

ElemKw(kind) ==
  CASE kind = "Line" -> "LINE"
    [] kind = "Arc" -> "ARC"
    [] kind = "Circle" -> "CIRCLE"
    [] kind = "Rectangle" -> "RECTANGLE"
    [] kind = "Fiducial" -> "FIDUCIAL"
    [] kind = "Track" -> "TRACK"
    [] kind = "Filled" -> "FILLED"
    [] kind = "Text" -> "TEXT"

ElemsText(elems) == [i \in 1..Len(elems) |-> << Line(ElemKw(elems[i].kind), elems[i].v) >>]

\* Vec<Attribute>: one ATTRIBUTE line per attribute
AttributesText(attrs) ==
  VecText([i \in 1..Len(attrs) |-> << Line("ATTRIBUTE", attrs[i]) >>])

OptText(kw, v) == IF v = None THEN <<>> ELSE << Line(kw, v) >>

SubShapeKw(kind) ==
  CASE kind = "Artwork" -> "ARTWORK" [] kind = "Fid" -> "FID" [] kind = "Pin" -> "PIN"

\* shapes::{Artwork, Fid, Pin}::to_gencad_string
SubShapeText(sub) ==
  << Line(SubShapeKw(sub.kind), sub.name) >> \o AttributesText(sub.attributes)

\* Shape::to_gencad_string
ShapeText(sh) ==
  << Line("SHAPE", sh.name) >>
    \o Concat(ElemsText(sh.elements))
    \o OptText("INSERT", sh.insert)
    \o OptText("HEIGHT", sh.height)
    \o Concat([i \in 1..Len(sh.subshapes) |-> SubShapeText(sh.subshapes[i])])
    \o AttributesText(sh.attributes)

ShapesText(shapes) ==
  SectionText("$SHAPES", [i \in 1..Len(shapes) |-> ShapeText(shapes[i])], "$ENDSHAPES")

\* Device::to_gencad_string
DeviceText(d) ==
  << Line("DEVICE", d.name) >>
    \o OptText("PART", d.PART) \o OptText("TYPE", d.TYPE)
    \o OptText("STYLE", d.STYLE) \o OptText("PACKAGE", d.PACKAGE)
    \o VecText([i \in 1..Len(d.pin_descriptions) |-> << Line("PINDESC", d.pin_descriptions[i]) >>])
    \o VecText([i \in 1..Len(d.pin_functions) |-> << Line("PINFUNCT", d.pin_functions[i]) >>])
    \o OptText("PINCOUNT", d.PINCOUNT) \o OptText("VALUE", d.VALUE)
    \o OptText("TOL", d.TOL) \o OptText("NTOL", d.NTOL) \o OptText("PTOL", d.PTOL)
    \o OptText("VOLTS", d.VOLTS) \o OptText("DESC", d.DESC)
    \o AttributesText(d.attributes)

DevicesText(devices) ==
  SectionText("$DEVICES", [i \in 1..Len(devices) |-> DeviceText(devices[i])], "$ENDDEVICES")

\* board::{Cutout, Mask, Artwork}::to_gencad_string
SubsectionText(sub) ==
  CASE sub.kind = "Cutout" ->
         << Line("CUTOUT", sub.name) >> \o VecText(ElemsText(sub.shapes))
           \o AttributesText(sub.attributes)
    [] sub.kind = "Mask" ->
         << Line("MASK", sub.name) >> \o VecText(ElemsText(sub.shapes))
           \o AttributesText(sub.attributes)
    [] sub.kind = "Artwork" ->
         << Line("ARTWORK", sub.name) >> \o VecText(ElemsText(sub.components))
           \o AttributesText(sub.attributes)

\* Board::to_gencad_string
BoardText(b) ==
  << Delim("$BOARD") >>
    \o OptText("THICKNESS", b.thickness)
    \o VecText(ElemsText(b.outline_shapes))
    \o AttributesText(b.attributes)
    \o VecText([i \in 1..Len(b.subsections) |-> SubsectionText(b.subsections[i])])
    \o << Delim("$ENDBOARD") >>

\* Unknown::to_gencad_string
UnknownText(u) ==
  << Delim("$" \o u.name) >>
    \o VecText([i \in 1..Len(u.statements) |->
                  << Line(u.statements[i].keyword, u.statements[i].parameter) >>])
    \o << Delim("$END" \o u.name) >>

HasSerializer == {"BOARD", "SHAPES", "DEVICES", "UNKNOWN"}

Serialize(s, v) ==
  CASE s = "BOARD" -> BoardText(v)
    [] s = "SHAPES" -> ShapesText(v)
    [] s = "DEVICES" -> DevicesText(v)
    [] s = "UNKNOWN" -> UnknownText(v)

\* Section::parse on one section's text: the delimiters frame the section,
\* take_newlines absorbs blank lines, every other line is a KeywordParam
IsKeywordLine(l) == l.kw # "" /\ l.kw \notin {"$BOARD", "$ENDBOARD", "$SHAPES", "$ENDSHAPES",
                                              "$DEVICES", "$ENDDEVICES", "$UNKNOWN", "$ENDUNKNOWN"}

Tokenize(t) == SelectSeq(t, IsKeywordLine)

(***************************************************************************)
(* The state machine                                                       *)
(***************************************************************************)
Keywords(s) ==
  CASE s = "HEADER" -> HeaderFields \cup {"ATTRIBUTE", "FOO"}
    [] s = "BOARD" -> {"THICKNESS", "ATTRIBUTE", "TRACK", "FILLED", "TEXT", "CUTOUT",
                       "MASK", "ARTWORK", "FOO"} \cup GeomKw
    [] s = "PADS" -> {"PAD", "ATTRIBUTE", "FOO"} \cup GeomKw
    [] s = "PADSTACKS" -> {"PADSTACK", "PAD", "ATTRIBUTE", "FOO"}
    [] s = "SHAPES" -> {"SHAPE", "INSERT", "FIDUCIAL", "HEIGHT", "ATTRIBUTE", "FOO"}
                         \cup GeomKw \cup SubKw
    [] s = "COMPONENTS" -> {"COMPONENT", "TEXT", "ATTRIBUTE", "FOO"}
                             \cup ComponentFirstWins \cup SubComponentKw
    [] s = "DEVICES" -> {"DEVICE", "PINDESC", "PINFUNCT", "ATTRIBUTE", "FOO"}
                          \cup DeviceScalars
    [] s = "SIGNALS" -> {"SIGNAL", "NODE", "NAILLOC", "ATTRIBUTE", "FOO"}
    [] OTHER -> {"FOO", "BAR"}

\* line i of a section carries the well-formed parameter token i
Lines(kws) == [i \in 1..Len(kws) |-> Line(kws[i], i)]

CompleteComponent == <<"COMPONENT", "DEVICE", "PLACE", "LAYER", "ROTATION", "SHAPE">>

CompleteHeader ==
  <<"GENCAD", "USER", "DRAWING", "REVISION", "UNITS", "ORIGIN", "INTERTRACK">>

\* the header lines in their usual order, the line of keyword f left out
HeaderWithout(f) == LET Keep(kw) == kw # f IN SelectSeq(CompleteHeader, Keep)

\* Lines already read when the model starts.  A Component needs six lines
\* before it can be flushed, so COMPONENTS also starts behind one complete
\* component, and behind one complete and one half-built component; a Header
\* needs seven, so HEADER also starts behind each header that lacks one field.
Prefixes(s) ==
  CASE s = "COMPONENTS" ->
         {<<>>, Lines(CompleteComponent),
          Lines(CompleteComponent \o <<"COMPONENT", "DEVICE", "PLACE", "LAYER">>)}
    [] s = "HEADER" -> {<<>>} \cup {Lines(HeaderWithout(f)) : f \in HeaderFields}
    [] OTHER -> {<<>>}

Budget(s, pre) == IF s = "HEADER" /\ pre # <<>> THEN MaxHeaderLines ELSE MaxLines

Init ==
  /\ sec \in Sections
  /\ \E pre \in Prefixes(sec) :
       /\ input = pre
       /\ ps = RunFrom(sec, InitState(sec), pre, 1).st
       /\ left = Budget(sec, pre)
  /\ phase = "parsing"
  /\ err = NoErr
  /\ result = <<>>
  /\ text = <<>>
  /\ reparsed = <<>>
  /\ retext = <<>>
  /\ file = <<>>
  /\ sections = <<>>
  /\ other = <<>>

\* the parameter texts the next line may carry: ungrammatical text, fresh
\* well-formed text, or the text of the previous line when that line had
\* the same keyword
Params(kw) ==
  {0, Len(input) + 1}
    \cup (IF input # <<>> /\ Last(input).kw = kw THEN {Last(input).p} ELSE {})

\* one iteration of the builder's loop over the section's lines
Feed(s) ==
  /\ phase = "parsing"
  /\ left > 0
  /\ \E kw \in Keywords(s) : \E p \in Params(kw) :
       LET kp == Line(kw, p)
           r == Step(s, ps, kp)
       IN /\ input' = Append(input, kp)
          /\ IF r.err = NoErr
             THEN ps' = r.st /\ phase' = "parsing" /\ err' = NoErr
             ELSE ps' = ps /\ phase' = "failed" /\ err' = r.err
  /\ left' = left - 1
  /\ UNCHANGED <<sec, result, text, reparsed, retext, file, sections, other>>

HeaderNew ==
  /\ sec = "HEADER"
  /\ Feed("HEADER")

BoardNew ==
  /\ sec = "BOARD"
  /\ Feed("BOARD")

ParsePads ==
  /\ sec = "PADS"
  /\ Feed("PADS")

PadstacksNew ==
  /\ sec = "PADSTACKS"
  /\ Feed("PADSTACKS")

ParseShapes ==
  /\ sec = "SHAPES"
  /\ Feed("SHAPES")

ParseComponents ==
  /\ sec = "COMPONENTS"
  /\ Feed("COMPONENTS")

ParseDevices ==
  /\ sec = "DEVICES"
  /\ Feed("DEVICES")

SignalsNew ==
  /\ sec = "SIGNALS"
  /\ Feed("SIGNALS")

UnknownNew ==
  /\ sec \notin KnownSections
  /\ Feed(sec)

\* the section's lines are exhausted: the code after the loop
EndOfSection ==
  /\ phase = "parsing"
  /\ LET f == Finalize(sec, ps)
     IN IF f.err = NoErr
        THEN phase' = "done" /\ result' = << f.st >> /\ err' = NoErr
        ELSE phase' = "failed" /\ result' = <<>> /\ err' = f.err
  /\ UNCHANGED <<sec, input, left, ps, text, reparsed, retext, file, sections, other>>

ToGencadString ==
  /\ phase = "done"
  /\ sec \in HasSerializer
  /\ text' = Serialize(sec, result[1])
  /\ phase' = "serialized"
  /\ UNCHANGED <<sec, input, left, ps, err, result, reparsed, retext, file, sections, other>>

Reparse ==
  /\ phase = "serialized"
  /\ reparsed' = << ParseSection(sec, Tokenize(text)) >>
  /\ phase' = "reparsed"
  /\ UNCHANGED <<sec, input, left, ps, err, result, text, retext, file, sections, other>>

Reserialize ==
  /\ phase = "reparsed"
  /\ reparsed[1].err = NoErr
  /\ retext' = Serialize(sec, reparsed[1].value[1])
  /\ phase' = "reserialized"
  /\ UNCHANGED <<sec, input, left, ps, err, result, text, reparsed, file, sections, other>>

Next ==
  \/ HeaderNew
  \/ BoardNew
  \/ ParsePads
  \/ PadstacksNew
  \/ ParseShapes
  \/ ParseComponents
  \/ ParseDevices
  \/ SignalsNew
  \/ UnknownNew
  \/ EndOfSection
  \/ ToGencadString
  \/ Reparse
  \/ Reserialize

Spec == Init /\ [][Next]_vars

(***************************************************************************)
(* A whole file: ParsedGencadFile::new.  The text of a file is the         *)
(* sequence of its `$NAME ... $ENDNAME` blocks; a block is its start tag,  *)
(* its keyword/parameter lines and its end tag.  sections() lexes all of   *)
(* the blocks first; the loop over the lexed blocks then builds one entry  *)
(* after the other.                                                        *)
(***************************************************************************)
\* Most blocks in one file.
MaxBlocks == 3

\* section names that have no builder of their own
OtherNames == {"UNKNOWN", "ROUTES"}

Block(name, end, parameters) == [name |-> name, end |-> end, parameters |-> parameters]

\* the lines a block of the given name may hold
Bodies(name) ==
  CASE name = "HEADER" -> {<<>>, Lines(CompleteHeader)}
    [] name = "COMPONENTS" -> {<<>>, Lines(<<"COMPONENT">>)}
    [] name = "SIGNALS" -> {<<>>, <<Line("SIGNAL", 0)>>}
    [] name \in OtherNames ->
         {<<>>, <<Line("FOO", 1), Line("BAR", 0)>>, <<Line("BAR", 0), Line("DEVICE", 1)>>}
    [] OTHER -> {<<>>}

\* the blocks a file may hold: every name with its bodies, and one block
\* whose end tag names another section
Blocks ==
  UNION {{Block(n, n, b) : b \in Bodies(n)} : n \in KnownSections \cup OtherNames}
  \cup {Block("ROUTES", "BOARD", <<>>)}

NomErr == [kind |-> "nom", ctx |-> "file", kw |-> ""]

UnparsedErr == [kind |-> "unparsed", ctx |-> "file", kw |-> ""]

\* the variant of ParsedSection the match arm of a section name builds
Variant(name) ==
  CASE name = "HEADER" -> "Header"
    [] name = "BOARD" -> "Board"
    [] name = "PADS" -> "Pads"
    [] name = "PADSTACKS" -> "Padstacks"
    [] name = "SHAPES" -> "Shapes"
    [] name = "COMPONENTS" -> "Components"
    [] name = "DEVICES" -> "Devices"
    [] name = "SIGNALS" -> "Signals"
    [] OTHER -> "Unknown"

ParsedSection(variant, value) == [variant |-> variant, value |-> value]

\* sections.push merging the entry into the last one when both have the
\* same variant
PushMerging(secs, name, value) ==
  IF secs # <<>> /\ Last(secs).variant = Variant(name)
  THEN [secs EXCEPT ![Len(secs)] = ParsedSection(Variant(name), value)]
  ELSE Append(secs, ParsedSection(Variant(name), value))

\* sections.push(ParsedSection::...(...))
Push(secs, name, value) == Append(secs, ParsedSection(Variant(name), value))

FileInit ==
  /\ sec = ""
  /\ input = <<>>
  /\ left = MaxBlocks
  /\ ps = <<>>
  /\ phase = "lexing"
  /\ err = NoErr
  /\ result = <<>>
  /\ text = <<>>
  /\ reparsed = <<>>
  /\ retext = <<>>
  /\ file = <<>>
  /\ sections = <<>>
  /\ other = <<>>

\* Section::parse without its comparison of the two tags
SectionParseAnyEnd ==
  /\ phase = "lexing"
  /\ left > 0
  /\ \E block \in Blocks :
       /\ file' = Append(file, block)
       /\ phase' = "lexing" /\ err' = NoErr
  /\ left' = left - 1
  /\ UNCHANGED <<sec, input, ps, result, text, reparsed, retext, sections, other>>

\* one iteration of many1(Section::parse): the next block of the file is
\* lexed; a block whose tags differ is not a section, lexing stops in front
\* of it, and the file is refused for its unparsed rest (or, when it is the
\* first block, for holding no section)
SectionParse ==
  /\ phase = "lexing"
  /\ left > 0
  /\ \E block \in Blocks :
       /\ file' = Append(file, block)
       /\ IF block.name = block.end
          THEN phase' = "lexing" /\ err' = NoErr
          ELSE phase' = "failed" /\ err' = IF file = <<>> THEN NomErr ELSE UnparsedErr
  /\ left' = left - 1
  /\ UNCHANGED <<sec, input, ps, result, text, reparsed, retext, sections, other>>

\* the end of the file's text: many1 fails on a file without a section
\* the end of the file's text: many1 fails on a file without a section;
\* otherwise ps holds unparsed_sections, the lexed blocks the loop has yet
\* to build
EndOfFile ==
  /\ phase = "lexing"
  /\ IF file = <<>>
     THEN phase' = "failed" /\ err' = NomErr /\ ps' = ps
     ELSE phase' = "building" /\ err' = NoErr /\ ps' = file
  /\ UNCHANGED <<sec, input, left, result, text, reparsed, retext, file, sections, other>>

\* the loop over unparsed_sections going on to the next section when a
\* builder fails
PushSectionSkipsFailed ==
  /\ phase = "building"
  /\ ps # <<>>
  /\ LET section == Head(ps)
         r == ParseSection(section.name, section.parameters)
     IN IF r.err = NoErr
        THEN /\ sections' = Push(sections, section.name, r.value[1])
             /\ phase' = "building" /\ err' = NoErr
        ELSE /\ sections' = sections
             /\ phase' = "building" /\ err' = NoErr
  /\ ps' = Tail(ps)
  /\ UNCHANGED <<sec, input, left, result, text, reparsed, retext, file, other>>

\* one iteration of `for section in unparsed_sections`
PushSection ==
  /\ phase = "building"
  /\ ps # <<>>
  /\ LET section == Head(ps)
         r == ParseSection(section.name, section.parameters)
     IN IF r.err = NoErr
        THEN /\ sections' = Push(sections, section.name, r.value[1])
             /\ phase' = "building" /\ err' = NoErr
        ELSE /\ sections' = sections
             /\ phase' = "failed" /\ err' = r.err
  /\ ps' = Tail(ps)
  /\ UNCHANGED <<sec, input, left, result, text, reparsed, retext, file, other>>

\* Ok(Self { sections }): result holds what the caller is given
ReturnFile ==
  /\ phase = "building"
  /\ ps = <<>>
  /\ phase' = "parsed"
  /\ result' = << sections >>
  /\ UNCHANGED <<sec, input, left, ps, err, text, reparsed, retext, file, sections, other>>

FileNext ==
  \/ SectionParse
  \/ EndOfFile
  \/ PushSection
  \/ ReturnFile

FileSpec == FileInit /\ [][FileNext]_vars

(***************************************************************************)
(* Two calls of ParsedGencadFile::new on two threads.  Everything a call   *)
(* works on is a local of that call: its buffer, unparsed_sections,        *)
(* sections, and the parser each builder constructs.  The variables hold   *)
(* the locals of the call whose thread is running and `other` those of     *)
(* the call whose thread is waiting; a context switch exchanges them.      *)
(***************************************************************************)
\* Most blocks in a file parsed next to another.
MaxCallBlocks == 2

\* the blocks these files may hold: a SHAPES block that sets a default
\* insertion style, one that opens a shape, an opaque block, and a block
\* whose tags differ
CallBlocks ==
  {Block("SHAPES", "SHAPES", <<Line("INSERT", 1)>>),
   Block("SHAPES", "SHAPES", <<Line("SHAPE", 1)>>),
   Block("ROUTES", "ROUTES", <<Line("FOO", 1)>>),
   Block("ROUTES", "BOARD", <<>>)}

\* the locals of a call that has not read anything yet
NewCall ==
  [left |-> MaxCallBlocks, ps |-> <<>>, phase |-> "lexing", err |-> NoErr,
   result |-> <<>>, file |-> <<>>, sections |-> <<>>]

\* the locals of the running call
Running ==
  [left |-> left, ps |-> ps, phase |-> phase, err |-> err, result |-> result,
   file |-> file, sections |-> sections]

CallsInit ==
  /\ sec = ""
  /\ input = <<>>
  /\ left = NewCall.left
  /\ ps = NewCall.ps
  /\ phase = NewCall.phase
  /\ err = NewCall.err
  /\ result = NewCall.result
  /\ text = <<>>
  /\ reparsed = <<>>
  /\ retext = <<>>
  /\ file = NewCall.file
  /\ sections = NewCall.sections
  /\ other = NewCall

\* Section::parse on the next block of the running call's file
CallSectionParse ==
  /\ phase = "lexing"
  /\ left > 0
  /\ \E block \in CallBlocks :
       /\ file' = Append(file, block)
       /\ IF block.name = block.end
          THEN phase' = "lexing" /\ err' = NoErr
          ELSE phase' = "failed" /\ err' = IF file = <<>> THEN NomErr ELSE UnparsedErr
  /\ left' = left - 1
  /\ UNCHANGED <<sec, input, ps, result, text, reparsed, retext, sections, other>>

\* a context switch with `sections` a static that both calls push to
SwitchSharingSections ==
  /\ other' = Running
  /\ left' = other.left
  /\ ps' = other.ps
  /\ phase' = other.phase
  /\ err' = other.err
  /\ result' = other.result
  /\ file' = other.file
  /\ UNCHANGED <<sec, input, text, reparsed, retext, sections>>

\* a context switch: the waiting call runs, the running call waits
Switch ==
  /\ other' = Running
  /\ left' = other.left
  /\ ps' = other.ps
  /\ phase' = other.phase
  /\ err' = other.err
  /\ result' = other.result
  /\ file' = other.file
  /\ sections' = other.sections
  /\ UNCHANGED <<sec, input, text, reparsed, retext>>

CallsNext ==
  \/ CallSectionParse
  \/ EndOfFile
  \/ PushSection
  \/ ReturnFile
  \/ Switch

CallsSpec == CallsInit /\ [][CallsNext]_vars

(***************************************************************************)
(* The tokenizer: take_newlines, keyword, KeywordParam::parse.  A text is  *)
(* here the sequence of its characters.                                    *)
(***************************************************************************)
\* Longest text given to the tokenizer.
MaxChars == 7

CR == "CR"

LF == "LF"

\* is_a("ABCDEFGHIJKLMNOPQRSTUVWXYZ")
Upper == {"A"}

\* the characters of a text: an uppercase letter, a quote (the same to the
\* tokenizer as a digit or a lowercase letter), a space, and the two
\* characters of a line terminator
Chars == Upper \cup {"q", " ", CR, LF}

\* take_while(c in cs): the length of the longest prefix of t made of cs
Run(t, cs) == Cardinality({k \in 1..Len(t) : \A m \in 1..k : t[m] \in cs})

Drop(t, n) == SubSeq(t, n + 1, Len(t))

NoMatch(t) == [ok |-> FALSE, remaining |-> t]

\* take_newlines consuming one line terminator only
TakeNewlinesOnce(t) ==
  LET a == Drop(t, Run(t, {CR}))
  IN IF a = <<>> \/ a[1] # LF THEN NoMatch(t)
     ELSE [ok |-> TRUE, remaining |-> Drop(a, 1)]

\* take_newlines: every "\r" up to the first "\n", one or more "\n"
\* (AsChar::is_newline), then all the "\r" and "\n" that follow
TakeNewlines(t) ==
  LET a == Drop(t, Run(t, {CR}))
      n == Run(a, {LF})
  IN IF n = 0 THEN NoMatch(t)
     ELSE LET b == Drop(a, n)
          IN [ok |-> TRUE, remaining |-> Drop(b, Run(b, {CR, LF}))]

\* KeywordParam::parse with the separator taken as a run of spaces
KeywordParamParseTrims(t) ==
  LET k == Run(t, Upper)
      a == Drop(t, k)
      b == Drop(a, Run(a, {" "}))
      n == Run(b, Chars \ {CR, LF})
      nl == TakeNewlines(Drop(b, n))
  IN IF k = 0 \/ a = <<>> \/ a[1] # " " \/ ~nl.ok
     THEN [ok |-> FALSE, keyword |-> <<>>, parameter |-> <<>>, remaining |-> t]
     ELSE [ok |-> TRUE, keyword |-> SubSeq(t, 1, k), parameter |-> SubSeq(b, 1, n),
           remaining |-> nl.remaining]

\* KeywordParam::parse: keyword, tag(" "), take_till(CR or LF), take_newlines
KeywordParamParse(t) ==
  LET k == Run(t, Upper)
      a == Drop(t, k)
      b == Drop(a, 1)
      n == Run(b, Chars \ {CR, LF})
      nl == TakeNewlines(Drop(b, n))
  IN IF k = 0 \/ a = <<>> \/ a[1] # " " \/ ~nl.ok
     THEN [ok |-> FALSE, keyword |-> <<>>, parameter |-> <<>>, remaining |-> t]
     ELSE [ok |-> TRUE, keyword |-> SubSeq(t, 1, k), parameter |-> SubSeq(b, 1, n),
           remaining |-> nl.remaining]

\* many0(KeywordParam::parse)
RECURSIVE Many0KeywordParam(_)
Many0KeywordParam(t) ==
  LET r == KeywordParamParse(t)
  IN IF ~r.ok THEN [parameters |-> <<>>, remaining |-> t]
     ELSE LET m == Many0KeywordParam(r.remaining)
          IN [parameters |-> <<[keyword |-> r.keyword, parameter |-> r.parameter]>>
                               \o m.parameters,
              remaining |-> m.remaining]

LexInit ==
  /\ sec = ""
  /\ input = <<>>
  /\ left = MaxChars
  /\ ps = <<>>
  /\ phase = "text"
  /\ err = NoErr
  /\ result = <<>>
  /\ text = <<>>
  /\ reparsed = <<>>
  /\ retext = <<>>
  /\ file = <<>>
  /\ sections = <<>>
  /\ other = <<>>

\* the text grows by one character
Char ==
  /\ phase = "text"
  /\ left > 0
  /\ \E c \in Chars : text' = Append(text, c)
  /\ left' = left - 1
  /\ UNCHANGED <<sec, input, ps, phase, err, result, reparsed, retext, file, sections, other>>

\* KeywordParam::parse is applied to the text
ParseLine ==
  /\ phase = "text"
  /\ result' = << KeywordParamParse(text) >>
  /\ phase' = "line"
  /\ UNCHANGED <<sec, input, left, ps, err, text, reparsed, retext, file, sections, other>>

\* many0(KeywordParam::parse) is applied to the text
ParseLines ==
  /\ phase = "text"
  /\ result' = << Many0KeywordParam(text) >>
  /\ phase' = "lines"
  /\ UNCHANGED <<sec, input, left, ps, err, text, reparsed, retext, file, sections, other>>

LexNext ==
  \/ Char
  \/ ParseLine
  \/ ParseLines

LexSpec == LexInit /\ [][LexNext]_vars

(***************************************************************************)
(* The primitive grammar: p_integer, number, layer and dimension, applied  *)
(* to the head of a text of characters.  A result is the decoded value and *)
(* the unconsumed remainder, or a failure.                                 *)
(***************************************************************************)
\* the longest digit string of the texts
MaxDigits == 5

\* the longest exponent of the texts
MaxExpDigits == 2

\* u16::MAX
U16Max == 65535

\* the characters digit1 accepts
Digit == {"0", "1", "2", "3", "4", "5", "6", "7", "8", "9"}

DigitValue(c) ==
  CASE c = "0" -> 0 [] c = "1" -> 1 [] c = "2" -> 2 [] c = "3" -> 3
    [] c = "4" -> 4 [] c = "5" -> 5 [] c = "6" -> 6 [] c = "7" -> 7
    [] c = "8" -> 8 [] c = "9" -> 9

\* the number a digit string denotes
RECURSIVE Decimal(_)
Decimal(ds) ==
  IF ds = <<>> THEN 0
  ELSE 10 * Decimal(SubSeq(ds, 1, Len(ds) - 1)) + DigitValue(ds[Len(ds)])

\* tag(w): the text begins with w
Tag(t, w) == Len(t) >= Len(w) /\ SubSeq(t, 1, Len(w)) = w

NoValue(t) == [ok |-> FALSE, value |-> <<>>, remaining |-> t]

\* p_integer with the digits reduced modulo 2^16 in place of the failure
p_integer_wrapping(t) ==
  LET a == IF Tag(t, <<"+">>) THEN Drop(t, 1) ELSE t
      n == Run(a, Digit)
  IN IF n = 0 THEN NoValue(t)
     ELSE [ok |-> TRUE, value |-> << Decimal(SubSeq(a, 1, n)) % (U16Max + 1) >>,
           remaining |-> Drop(a, n)]

\* opt(char('+')), digit1, and the digits parsed to a u16
p_integer(t) ==
  LET a == IF Tag(t, <<"+">>) THEN Drop(t, 1) ELSE t
      n == Run(a, Digit)
  IN IF n = 0 \/ Decimal(SubSeq(a, 1, n)) > U16Max THEN NoValue(t)
     ELSE [ok |-> TRUE, value |-> << Decimal(SubSeq(a, 1, n)) >>,
           remaining |-> Drop(a, n)]

\* take_while1(' ')
spaces(t) == Run(t, {" "})

\* the alternatives of an alt over tags, in the order of the source
ParamLayers ==
  << [tag |-> <<"P", "O", "W", "E", "R">>, variant |-> "PowerX"],
     [tag |-> <<"G", "R", "O", "U", "N", "D">>, variant |-> "GroundX"],
     [tag |-> <<"I", "N", "N", "E", "R">>, variant |-> "InnerX"],
     [tag |-> <<"L", "A", "Y", "E", "R">>, variant |-> "LayerX"],
     [tag |-> <<"L", "A", "Y", "E", "R", "S", "E", "T">>, variant |-> "LayersetX"] >>

FixedLayers ==
  << [tag |-> <<"T", "O", "P">>, variant |-> "Top"],
     [tag |-> <<"B", "O", "T", "T", "O", "M">>, variant |-> "Bottom"],
     [tag |-> <<"S", "O", "L", "D", "E", "R", "M", "A", "S", "K", "_", "T", "O", "P">>, variant |-> "SoldermaskTop"],
     [tag |-> <<"S", "O", "L", "D", "E", "R", "M", "A", "S", "K", "_", "B", "O", "T", "T", "O", "M">>, variant |-> "SoldermaskBottom"],
     [tag |-> <<"S", "I", "L", "K", "S", "C", "R", "E", "E", "N", "_", "T", "O", "P">>, variant |-> "SilkscreenTop"],
     [tag |-> <<"S", "I", "L", "K", "S", "C", "R", "E", "E", "N", "_", "B", "O", "T", "T", "O", "M">>, variant |-> "SilkscreenBottom"],
     [tag |-> <<"S", "O", "L", "D", "E", "R", "P", "A", "S", "T", "E", "_", "T", "O", "P">>, variant |-> "SolderpasteTop"],
     [tag |-> <<"S", "O", "L", "D", "E", "R", "P", "A", "S", "T", "E", "_", "B", "O", "T", "T", "O", "M">>, variant |-> "SolderpasteBottom"],
     [tag |-> <<"I", "N", "N", "E", "R">>, variant |-> "Inner"],
     [tag |-> <<"A", "L", "L">>, variant |-> "All"] >>

FixedDimensions ==
  << [tag |-> <<"I", "N", "C", "H">>, variant |-> "Inch"],
     [tag |-> <<"T", "H", "O", "U">>, variant |-> "Thou"],
     [tag |-> <<"M", "M", "1", "0", "0">>, variant |-> "Mm100"],
     [tag |-> <<"M", "M">>, variant |-> "Mm"] >>

UserDimensions ==
  << [tag |-> <<"U", "S", "E", "R", "M", "M">>, variant |-> "UserMm"],
     [tag |-> <<"U", "S", "E", "R", "M">>, variant |-> "UserM"],
     [tag |-> <<"U", "S", "E", "R">>, variant |-> "User"] >>

\* the first alternative of an alt that matches, 0 when none does
FirstOf(alts, Matches(_)) ==
  IF \E i \in 1..Len(alts) : Matches(alts[i])
  THEN CHOOSE i \in 1..Len(alts) :
         Matches(alts[i]) /\ \A j \in 1..(i - 1) : ~Matches(alts[j])
  ELSE 0

\* alt over (tag, digit1) mapped through Layer::from_pair
ParamLayer(t) ==
  LET Matches(a) == Tag(t, a.tag) /\ Run(Drop(t, Len(a.tag)), Digit) > 0
      i == FirstOf(ParamLayers, Matches)
  IN IF i = 0 THEN NoValue(t)
     ELSE LET a == Drop(t, Len(ParamLayers[i].tag))
              n == Run(a, Digit)
          IN IF Decimal(SubSeq(a, 1, n)) > U16Max THEN NoValue(t)
             ELSE [ok |-> TRUE,
                   value |-> << ParamLayers[i].variant, Decimal(SubSeq(a, 1, n)) >>,
                   remaining |-> Drop(a, n)]

\* alt over value(variant, tag)
Fixed(alts, t) ==
  LET Matches(a) == Tag(t, a.tag)
      i == FirstOf(alts, Matches)
  IN IF i = 0 THEN NoValue(t)
     ELSE [ok |-> TRUE, value |-> << alts[i].variant >>,
           remaining |-> Drop(t, Len(alts[i].tag))]

\* the parameterized names are tried first, the fixed names when they fail
layer(t) == IF ParamLayer(t).ok THEN ParamLayer(t) ELSE Fixed(FixedLayers, t)

\* alt over separated_pair(tag, spaces, p_integer) mapped through
\* Dimension::from_pair
UserDimension(t) ==
  LET Pair(a) == LET b == Drop(t, Len(a.tag))
                 IN IF Tag(t, a.tag) /\ spaces(b) > 0
                    THEN p_integer(Drop(b, spaces(b)))
                    ELSE NoValue(t)
      Matches(a) == Pair(a).ok
      i == FirstOf(UserDimensions, Matches)
  IN IF i = 0 THEN NoValue(t)
     ELSE [ok |-> TRUE,
           value |-> << UserDimensions[i].variant, Pair(UserDimensions[i]).value[1] >>,
           remaining |-> Pair(UserDimensions[i]).remaining]

\* the fixed names are tried first, the user units when they fail
dimension(t) ==
  IF Fixed(FixedDimensions, t).ok THEN Fixed(FixedDimensions, t)
  ELSE UserDimension(t)

Sign == {"+", "-"}

\* nom's recognize_float: an optional sign, digits with an optional fraction
\* or a fraction alone, and an optional exponent whose digits are required
\* once its letter is read
recognize_float(t) ==
  LET s == IF t # <<>> /\ t[1] \in Sign THEN 1 ELSE 0
      a == Drop(t, s)
      i == Run(a, Digit)
      b == Drop(a, i)
      dot == b # <<>> /\ b[1] = "."
      f == IF dot THEN Run(Drop(b, 1), Digit) ELSE 0
      m == IF dot /\ (i > 0 \/ f > 0) THEN i + 1 + f ELSE i
      c == Drop(a, m)
      e == c # <<>> /\ c[1] \in {"e", "E"}
      es == IF e /\ Len(c) > 1 /\ c[2] \in Sign THEN 1 ELSE 0
      x == IF e THEN Run(Drop(c, 1 + es), Digit) ELSE 0
      n == s + m + (IF e THEN 1 + es + x ELSE 0)
  IN IF m = 0 \/ (e /\ x = 0) THEN [ok |-> FALSE, cut |-> m > 0]
     ELSE [ok |-> TRUE,
           int |-> SubSeq(a, 1, i),
           frac |-> IF dot THEN SubSeq(b, 2, 1 + f) ELSE <<>>,
           down |-> e /\ es = 1 /\ c[2] = "-",
           exp |-> IF e THEN SubSeq(c, 2 + es, 1 + es + x) ELSE <<>>,
           token |-> SubSeq(t, 1, n),
           remaining |-> Drop(t, n)]

\* the leading digits of the least decimal that rounds to an infinite f32,
\* 3.4028235677973366e38, and the power of ten of its first digit
F32Limit == <<"3", "4", "0", "2", "8", "2", "3", "5", "6", "7", "7", "9", "7", "3", "3", "6", "6">>

F32LimitPower == 38

\* the digit string, padded with zeros, is above the limit's digits
RECURSIVE Above(_, _)
Above(ds, limit) ==
  IF limit = <<>> THEN TRUE
  ELSE LET d == IF ds = <<>> THEN 0 ELSE DigitValue(ds[1])
           l == DigitValue(limit[1])
       IN IF d # l THEN d > l
          ELSE Above(IF ds = <<>> THEN <<>> ELSE Tail(ds), Tail(limit))

\* str::parse::<f32> of a recognized token never fails: a magnitude past
\* the largest f32 is read as infinity
F32Class(r) ==
  LET ds == r.int \o r.frac
      z == Run(ds, {"0"})
      sig == Drop(ds, z)
      power == Len(r.int) - z - 1
                 + (IF r.down THEN 0 - Decimal(r.exp) ELSE Decimal(r.exp))
  IN IF sig = <<>> THEN "finite"
     ELSE IF power > F32LimitPower THEN "infinite"
     ELSE IF power = F32LimitPower /\ Above(sig, F32Limit) THEN "infinite"
     ELSE "finite"

\* the tokens str::parse::<f32> reads as not-a-number and as infinity
Exceptions ==
  << [tag |-> <<"n", "a", "n">>, variant |-> "nan"],
     [tag |-> <<"i", "n", "f", "i", "n", "i", "t", "y">>, variant |-> "infinite"],
     [tag |-> <<"i", "n", "f">>, variant |-> "infinite"] >>

\* number with nom's recognize_float_or_exceptions in place of recognize_float
number_or_exceptions(t) ==
  LET r == recognize_float(t)
      s == IF t # <<>> /\ t[1] \in Sign THEN 1 ELSE 0
      x == Fixed(Exceptions, Drop(t, s))
  IN IF r.ok
     THEN [ok |-> TRUE, value |-> << F32Class(r), r.token >>,
           remaining |-> r.remaining]
     ELSE IF x.ok
     THEN [ok |-> TRUE,
           value |-> << x.value[1], SubSeq(t, 1, Len(t) - Len(x.remaining)) >>,
           remaining |-> x.remaining]
     ELSE NoValue(t)

\* recognize_float, and the token parsed to an f32
number(t) ==
  LET r == recognize_float(t)
  IN IF r.ok
     THEN [ok |-> TRUE, value |-> << F32Class(r), r.token >>,
           remaining |-> r.remaining]
     ELSE NoValue(t)

\* the longest name text
MaxNameChars == 4

\* is_valid_char, ' '..='~': of the characters of the texts, all but CR and LF
is_valid_char(c) == c \notin {CR, LF}

\* many0(quoted_string_inner_fragment), folded into a string: `\"` gives a
\* quote, any other backslash a backslash, and a run of other valid
\* characters itself; it ends at a quote, at a character that is not valid
\* and at the end of the text
RECURSIVE build_string(_)
build_string(t) ==
  IF t = <<>> \/ t[1] = "\"" \/ ~is_valid_char(t[1])
  THEN [value |-> <<>>, remaining |-> t]
  ELSE LET n == IF t[1] = "\\" /\ Len(t) > 1 /\ t[2] = "\"" THEN 2 ELSE 1
           r == build_string(Drop(t, n))
       IN [value |-> << t[n] >> \o r.value, remaining |-> r.remaining]

\* delimited(char('"'), build_string, char('"'))
quoted_string(t) ==
  IF t = <<>> \/ t[1] # "\"" THEN NoValue(t)
  ELSE LET r == build_string(Tail(t))
       IN IF r.remaining = <<>> \/ r.remaining[1] # "\"" THEN NoValue(t)
          ELSE [ok |-> TRUE, value |-> r.value, remaining |-> Tail(r.remaining)]

\* not a quote at the head, then the valid characters up to the first space
unquoted_string(t) ==
  IF t # <<>> /\ t[1] = "\"" THEN NoValue(t)
  ELSE LET n == Cardinality({k \in 1..Len(t) :
                               \A m \in 1..k : t[m] # " " /\ is_valid_char(t[m])})
       IN [ok |-> TRUE, value |-> SubSeq(t, 1, n), remaining |-> Drop(t, n)]

\* alt of the unquoted and the quoted form
string(t) == IF unquoted_string(t).ok THEN unquoted_string(t) ELSE quoted_string(t)

\* string_alias!(part_name)
part_name(t) == string(t)

\* recognize_float fails past the point of no return: the letter of an
\* exponent was read and no digit follows it (cut(digit1)), which an
\* enclosing alt does not recover from
Cut(t) == ~recognize_float(t).ok /\ recognize_float(t).cut

\* the longest list of numbers of an arc text
MaxArcNumbers == 8

\* the n-th number of the text t, read after the n - 1 numbers of r: spaces
\* before it unless it is the first, then number
NumberAfter(r, t, n) ==
  LET sp == IF n = 1 THEN 0 ELSE spaces(r.remaining)
      a == Drop(r.remaining, sp)
  IN IF ~r.ok THEN r
     ELSE IF (n > 1 /\ sp = 0) \/ ~number(a).ok
     THEN [ok |-> FALSE, cut |-> (n = 1 \/ sp > 0) /\ Cut(a),
           values |-> <<>>, remaining |-> t]
     ELSE [ok |-> TRUE, cut |-> FALSE,
           values |-> Append(r.values, number(a).value),
           remaining |-> number(a).remaining]

\* n numbers, each after the first preceded by spaces: the tuples of
\* x_y_ref, preceded(spaces, x_y_ref) and preceded(spaces, number) laid flat
\* (the result for n - 1 numbers is computed once and handed on as a value)
RECURSIVE Numbers(_, _)
Numbers(t, n) ==
  IF n = 0 THEN [ok |-> TRUE, cut |-> FALSE, values |-> <<>>, remaining |-> t]
  ELSE CHOOSE x \in {NumberAfter(r, t, n) : r \in {Numbers(t, n - 1)}} : TRUE

XYRef(x, y) == [x |-> x, y |-> y]

\* ArcRef::new_circular
NewCircular(v) ==
  [variant |-> "Circular", start |-> XYRef(v[1], v[2]), end |-> XYRef(v[3], v[4]),
   center |-> XYRef(v[5], v[6])]

\* ArcRef::new_elliptical
NewElliptical(v) ==
  [variant |-> "Elliptical", start |-> XYRef(v[1], v[2]), end |-> XYRef(v[3], v[4]),
   center |-> XYRef(v[5], v[6]), major_radius |-> v[7], minor_radius |-> v[8]]

\* arc_ref with the circular form tried before the elliptical one
arc_ref_short_first(t) ==
  LET Alt(e, c) ==
        IF c.ok
        THEN [ok |-> TRUE, value |-> NewCircular(c.values), remaining |-> c.remaining]
        ELSE IF c.cut THEN NoValue(t)
        ELSE IF e.ok
        THEN [ok |-> TRUE, value |-> NewElliptical(e.values), remaining |-> e.remaining]
        ELSE NoValue(t)
  IN CHOOSE x \in {Alt(e, c) : e \in {Numbers(t, 8)}, c \in {Numbers(t, 6)}} : TRUE

\* alt of the elliptical form, three coordinate pairs and two numbers, and
\* the circular form, three coordinate pairs; e and c are the results of
\* the two forms on the text
arc_ref(t) ==
  LET Alt(e, c) ==
        IF e.ok
        THEN [ok |-> TRUE, value |-> NewElliptical(e.values), remaining |-> e.remaining]
        ELSE IF e.cut THEN NoValue(t)
        ELSE IF c.ok
        THEN [ok |-> TRUE, value |-> NewCircular(c.values), remaining |-> c.remaining]
        ELSE NoValue(t)
  IN CHOOSE x \in {Alt(e, c) : e \in {Numbers(t, 8)}, c \in {Numbers(t, 6)}} : TRUE

\* the digits of the texts: enough to write 0, 65535 and 65536, and the
\* exponents on both sides of the f32 limit
InputDigits == {"0", "3", "5", "6"}

ExpDigits == {"0", "3", "8"}

DigitStrings(ds, n) == UNION {[1..k -> ds] : k \in 0..n}

OptSign == {<<>>, <<"+">>, <<"-">>}

TagsOf(alts) == {alts[i].tag : i \in 1..Len(alts)}

\* the texts: a signed digit string, a layer name or a dimension name with
\* digits after it, a number with fraction and exponent, a token of
\* Exceptions
IntegerInput(t) ==
  \E s \in OptSign, ds \in DigitStrings(InputDigits, MaxDigits), e \in {<<>>, <<" ">>} :
    t = s \o ds \o e

LayerInput(t) ==
  \E w \in TagsOf(ParamLayers) \cup TagsOf(FixedLayers),
     ds \in DigitStrings(InputDigits, MaxDigits) :
    t = w \o ds

DimensionInput(t) ==
  \E w \in TagsOf(FixedDimensions) \cup TagsOf(UserDimensions),
     sp \in {<<>>, <<" ">>},
     ds \in DigitStrings(InputDigits, MaxDigits) :
    t = w \o sp \o ds

Exponents(n) ==
  {<<>>} \cup {<<"e">> \o es \o ds : es \in OptSign, ds \in DigitStrings(ExpDigits, n)}

\* the numbers of the arc texts, and what may follow the last one
ArcTokens == {<<"5">>, <<"-", "3">>}

ArcSuffixes == {<<>>, <<" ">>, <<" ", "x">>, <<" ", "5", "e">>}

\* the texts of n tokens, joined by single spaces
RECURSIVE Joined(_, _)
Joined(toks, n) ==
  IF n = 0 THEN {<<>>}
  ELSE IF n = 1 THEN toks
  ELSE {a \o <<" ">> \o b : a \in Joined(toks, n - 1), b \in toks}

ArcInput(t) ==
  \E n \in 0..MaxArcNumbers, e \in ArcSuffixes :
    \E a \in Joined(ArcTokens, n) : t = a \o e

\* the characters of the name texts
NameChars == {"D", " ", "\"", "\\"}

NameInput(t) == \E n \in 0..MaxNameChars : t \in [1..n -> NameChars]

NumberInput(t) ==
  \/ \E s \in OptSign,
        i \in DigitStrings(InputDigits, 1),
        f \in {<<>>, <<".">>} \cup {<<".", d>> : d \in InputDigits},
        x \in Exponents(MaxExpDigits) :
       t = s \o i \o f \o x
  \/ \E s \in OptSign, w \in TagsOf(Exceptions), ds \in DigitStrings(InputDigits, 1) :
       t = s \o w \o ds

\* a parameter text, before a primitive grammar function is applied to it
PrimInit ==
  /\ sec = ""
  /\ input = <<>>
  /\ left = 0
  /\ ps = <<>>
  /\ phase = "token"
  /\ err = NoErr
  /\ result = <<>>
  /\ \/ IntegerInput(text)
     \/ LayerInput(text)
     \/ DimensionInput(text)
     \/ NumberInput(text)
     \/ ArcInput(text)
     \/ NameInput(text)
  /\ reparsed = <<>>
  /\ retext = <<>>
  /\ file = <<>>
  /\ sections = <<>>
  /\ other = <<>>

ParseInteger ==
  /\ phase = "token"
  /\ result' = << p_integer(text) >>
  /\ phase' = "integer"
  /\ UNCHANGED <<sec, input, left, ps, err, text, reparsed, retext, file, sections, other>>

ParseNumber ==
  /\ phase = "token"
  /\ result' = << number(text) >>
  /\ phase' = "number"
  /\ UNCHANGED <<sec, input, left, ps, err, text, reparsed, retext, file, sections, other>>

ParseLayer ==
  /\ phase = "token"
  /\ result' = << layer(text) >>
  /\ phase' = "layer"
  /\ UNCHANGED <<sec, input, left, ps, err, text, reparsed, retext, file, sections, other>>

ParseDimension ==
  /\ phase = "token"
  /\ result' = << dimension(text) >>
  /\ phase' = "dimension"
  /\ UNCHANGED <<sec, input, left, ps, err, text, reparsed, retext, file, sections, other>>

ParseArc ==
  /\ phase = "token"
  /\ result' = << arc_ref(text) >>
  /\ phase' = "arc"
  /\ UNCHANGED <<sec, input, left, ps, err, text, reparsed, retext, file, sections, other>>

\* Device::from_parameters, and the PART and DEVICE arms, which keep the
\* name and drop the remainder
ParsePartName ==
  /\ phase = "token"
  /\ result' = << part_name(text) >>
  /\ phase' = "part_name"
  /\ UNCHANGED <<sec, input, left, ps, err, text, reparsed, retext, file, sections, other>>

PrimNext ==
  \/ ParseArc
  \/ ParsePartName
  \/ ParseInteger
  \/ ParseNumber
  \/ ParseLayer
  \/ ParseDimension

PrimSpec == PrimInit /\ [][PrimNext]_vars

(***************************************************************************)
(* InterpretedGencadFile::new: the sections of a parsed document are       *)
(* matched one by one into the slots of the kinds the interpreter needs,   *)
(* the header is required, and each of the five record lists kept is       *)
(* inserted into a table keyed by the records' names.                      *)
(***************************************************************************)
\* the longest parsed document
MaxParsedSections == 3

\* the variants whose records go into a table, and the table of each
TableOf ==
  [Pads |-> "pads", Padstacks |-> "padstacks", Shapes |-> "shapes",
   Components |-> "components", Devices |-> "devices"]

TableVariants == DOMAIN TableOf

\* the variants the match arm `_ => ()` passes over
Unneeded == {"Board", "Signals", "Unknown"}

\* a record of a list: its name, and the rest of it
NamedRecord(name, body) == [name |-> name, body |-> body]

\* the record lists of the documents: one record, two records of one name,
\* two records of two names
RecordLists ==
  { << NamedRecord("a", 1) >>,
    << NamedRecord("a", 1), NamedRecord("a", 2) >>,
    << NamedRecord("a", 2), NamedRecord("b", 1) >> }

\* the sections of the documents; the contents of a section of another kind
\* are left out
ParsedSections ==
  {ParsedSection(v, <<>>) : v \in Unneeded \cup {"Header"}}
    \cup {ParsedSection(v, l) : v \in TableVariants, l \in RecordLists}

\* the slots before the loop: every one None
NoSections ==
  [header |-> <<>>, pads |-> <<>>, padstacks |-> <<>>, shapes |-> <<>>,
   components |-> <<>>, devices |-> <<>>]

\* the match of the loop with a section of no use stored as the header
MatchSectionTakingAll(slots, section) ==
  IF section.variant \in Unneeded \cup {"Header"}
  THEN [slots EXCEPT !.header = << section.value >>]
  ELSE [slots EXCEPT ![TableOf[section.variant]] = << section.value >>]

\* the match of the loop: the section's value is stored in the slot of its
\* variant, and a section of another variant is passed over
MatchSection(slots, section) ==
  IF section.variant = "Header"
  THEN [slots EXCEPT !.header = << section.value >>]
  ELSE IF section.variant \in TableVariants
  THEN [slots EXCEPT ![TableOf[section.variant]] = << section.value >>]
  ELSE slots

\* HashMap::insert: the record takes the place of one of the same name
Insert(table, rec) ==
  [n \in DOMAIN table \cup {rec.name} |-> IF n = rec.name THEN rec ELSE table[n]]

\* the table of a slot: empty for None, else its records inserted in order
RECURSIVE InsertAll(_, _)
InsertAll(table, recs) ==
  IF recs = <<>> THEN table
  ELSE InsertAll(Insert(table, Head(recs)), Tail(recs))

EmptyTable == [n \in {} |-> 0]

TableOfSlot(slot) == IF slot = <<>> THEN EmptyTable ELSE InsertAll(EmptyTable, slot[1])

\* the value returned for the slots of a document with a header
Interpreted(slots) ==
  [header |-> slots.header[1],
   pads |-> TableOfSlot(slots.pads),
   padstacks |-> TableOfSlot(slots.padstacks),
   shapes |-> TableOfSlot(slots.shapes),
   components |-> TableOfSlot(slots.components),
   devices |-> TableOfSlot(slots.devices)]

MissingHeaderErr == [kind |-> "interpret", ctx |-> "Missing header section in GenCAD file", kw |-> ""]

\* a parsed document, handed to the interpreter
InterpInit ==
  /\ sec = ""
  /\ input = <<>>
  /\ left = 0
  /\ ps = NoSections
  /\ phase = "interpreting"
  /\ err = NoErr
  /\ result = <<>>
  /\ text = <<>>
  /\ reparsed = <<>>
  /\ retext = <<>>
  /\ \E n \in 0..MaxParsedSections : sections \in [1..n -> ParsedSections]
  /\ file = sections
  /\ other = <<>>

\* one turn of the loop over parsed.sections
InterpSection ==
  /\ phase = "interpreting"
  /\ file # <<>>
  /\ ps' = MatchSection(ps, Head(file))
  /\ file' = Tail(file)
  /\ UNCHANGED <<sec, input, left, phase, err, result, text, reparsed, retext, sections, other>>

\* the loop is over and no header was seen
InterpMissingHeader ==
  /\ phase = "interpreting"
  /\ file = <<>>
  /\ ps.header = <<>>
  /\ phase' = "failed"
  /\ err' = MissingHeaderErr
  /\ UNCHANGED <<sec, input, left, ps, result, text, reparsed, retext, file, sections, other>>

\* the loop is over: the tables are built and returned
InterpTables ==
  /\ phase = "interpreting"
  /\ file = <<>>
  /\ ps.header # <<>>
  /\ phase' = "interpreted"
  /\ result' = << Interpreted(ps) >>
  /\ UNCHANGED <<sec, input, left, ps, err, text, reparsed, retext, file, sections, other>>

InterpNext ==
  \/ InterpSection
  \/ InterpMissingHeader
  \/ InterpTables

InterpSpec == InterpInit /\ [][InterpNext]_vars

(***************************************************************************)
(* Vocabulary of the properties                                            *)
(***************************************************************************)
\* keywords that introduce a record of the section's output list
EntityKw(s) ==
  CASE s = "BOARD" -> {"CUTOUT", "MASK", "ARTWORK"}
    [] s = "PADS" -> {"PAD"}
    [] s = "PADSTACKS" -> {"PADSTACK"}
    [] s = "SHAPES" -> {"SHAPE"}
    [] s = "COMPONENTS" -> {"COMPONENT"}
    [] s = "DEVICES" -> {"DEVICE"}
    [] s = "SIGNALS" -> {"SIGNAL"}
    [] OTHER -> {}

\* keywords that introduce a sub-record inside a record of the output list
SubEntityKw(s) ==
  CASE s = "SHAPES" -> {"ARTWORK", "FID", "PIN"}
    [] s = "COMPONENTS" -> {"ARTWORK", "FID"}
    [] OTHER -> {}

\* the parameter tokens of the lines whose keyword is in kws, in file order
Tokens(lines, kws) ==
  LET Is(l) == l.kw \in kws
      sel == SelectSeq(lines, Is)
  IN [i \in 1..Len(sel) |-> sel[i].p]

Names(recs) == [i \in 1..Len(recs) |-> recs[i].name]

\* a sub-record is open
SubOpen(s, st) ==
  CASE s = "BOARD" -> st.parser_state # <<>>
    [] s \in {"SHAPES", "COMPONENTS"} -> st.state # <<>> /\ st.state[1].state # <<>>
    [] OTHER -> FALSE

\* a record of the output list is open
RecordOpen(s, st) ==
  CASE s = "PADS" -> st.parser_state # <<>>
    [] s \in {"PADSTACKS", "SHAPES", "COMPONENTS", "DEVICES", "SIGNALS"} -> st.state # <<>>
    [] OTHER -> FALSE

CandidateOpen(s, st) == SubOpen(s, st) \/ RecordOpen(s, st)

\* the records built so far: the closed ones, then the open one with its
\* open sub-record taken in
Records(s, st) ==
  CASE s = "BOARD" -> st.subsections \o st.parser_state
    [] s = "PADS" -> st.pads \o st.parser_state
    [] s = "PADSTACKS" -> st.padstacks \o st.state
    [] s = "SIGNALS" -> st.signals \o st.state
    [] s = "DEVICES" -> st.devices \o st.state
    [] s = "SHAPES" ->
         st.shapes \o [i \in 1..Len(st.state) |->
                         [st.state[i].shape EXCEPT !.subshapes = @ \o st.state[i].state]]
    [] s = "COMPONENTS" ->
         st.components \o [i \in 1..Len(st.state) |->
                             [st.state[i].prototype EXCEPT
                                !.subcomponents = @ \o st.state[i].state]]
    [] OTHER -> <<>>

\* the output list of a section value
Output(s, v) ==
  CASE s = "BOARD" -> v.subsections
    [] s = "PADSTACKS" -> v.padstacks
    [] s = "SIGNALS" -> v.signals
    [] s \in {"PADS", "SHAPES", "COMPONENTS", "DEVICES"} -> v
    [] OTHER -> <<>>

SubRecordsOf(s, recs) ==
  CASE s = "SHAPES" -> Concat([i \in 1..Len(recs) |-> recs[i].subshapes])
    [] s = "COMPONENTS" -> Concat([i \in 1..Len(recs) |-> recs[i].subcomponents])
    [] OTHER -> <<>>

\* the builder reads one more line; Fed is that line
Reads == phase = "parsing" /\ Len(input') = Len(input) + 1

Fed == Last(input')

ReadsGood(kws) == Reads /\ Fed.kw \in kws /\ ~Bad(Fed)

\* the builder reaches the end of the section's lines
Ends == phase = "parsing" /\ phase' # "parsing" /\ input' = input

(***************************************************************************)
(* Properties                                                              *)
(***************************************************************************)

\* C1: parsing the text produced by serializing a value succeeds and yields
\* a value equal to the one serialized.
C1_RoundTrip ==
  phase \in {"reparsed", "reserialized"} =>
    reparsed[1].err = NoErr /\ reparsed[1].value = result

\* C2: serializing the value parsed from a serialized value gives the same
\* text as the first serialization.
C2_Idempotent ==
  /\ phase = "reparsed" => reparsed[1].err = NoErr
  /\ phase = "reserialized" => retext = text

\* C3: an entity-introducing keyword arriving while a candidate is open
\* appends the open candidate before the new one is opened, so the records
\* (and the sub-records inside them) are exactly the entity-introducing
\* lines accepted so far, one record per line, in file order.
C3_OneRecordPerEntityKeyword ==
  /\ phase = "parsing" =>
       /\ Names(Records(sec, ps)) = Tokens(input, EntityKw(sec))
       /\ Names(SubRecordsOf(sec, Records(sec, ps))) = Tokens(input, SubEntityKw(sec))
  /\ result # <<>> =>
       /\ Names(Output(sec, result[1])) = Tokens(input, EntityKw(sec))
       /\ Names(SubRecordsOf(sec, Output(sec, result[1]))) = Tokens(input, SubEntityKw(sec))

\* a COMPONENT line read while a complete component was open
C3_Witness ==
  /\ sec = "COMPONENTS"
  /\ phase = "parsing"
  /\ Len(input) = 7
  /\ input[7].kw = "COMPONENT"
  /\ Names(ps.components) = <<1>>
  /\ ps.state # <<>>
  /\ ps.state[1].prototype.name = 7

\* keywords a record takes itself but its sub-records do not
ParentOnlyKw(s) ==
  CASE s = "SHAPES" -> GeomKw \cup {"FIDUCIAL", "HEIGHT"}
    [] s = "BOARD" -> {"THICKNESS"}
    [] s = "COMPONENTS" -> ComponentFirstWins \cup {"TEXT"}
    [] OTHER -> {}

\* the record that holds the open sub-record, before and after a step
Parent(s, st) ==
  CASE s = "SHAPES" -> st.state[1].shape
    [] s = "COMPONENTS" -> st.state[1].prototype
    [] OTHER -> st

SubList(s, st) ==
  CASE s = "SHAPES" -> st.state[1].shape.subshapes
    [] s = "COMPONENTS" -> st.state[1].prototype.subcomponents
    [] OTHER -> st.subsections

OpenSub(s, st) ==
  CASE s = "BOARD" -> st.parser_state[1]
    [] OTHER -> st.state[1].state[1]

\* the parent record took the value of line kp
Applied(s, before, after, kp) ==
  CASE kp.kw \in GeomKw \cup {"FIDUCIAL"} -> after.elements = Append(before.elements, Elem(GeomKind(kp.kw), kp.p))
    [] kp.kw = "HEIGHT" -> after.height = kp.p
    [] kp.kw = "THICKNESS" -> after.thickness = (IF before.thickness = None THEN kp.p ELSE before.thickness)
    [] kp.kw = "TEXT" -> after.texts = Append(before.texts, kp.p)
    [] OTHER -> after[kp.kw] = (IF before[kp.kw] = None THEN kp.p ELSE before[kp.kw])

\* C4: with a sub-record open, a well-formed line whose keyword is valid on
\* the parent record only is accepted: the sub-record is flushed into the
\* parent, no candidate stays open at the sub-record level, and the parent
\* takes the line's value.
C4_RedispatchToParent ==
  [][ (ReadsGood(ParentOnlyKw(sec)) /\ SubOpen(sec, ps)) =>
        /\ phase' = "parsing"
        /\ ~SubOpen(sec, ps')
        /\ SubList(sec, ps') = Append(SubList(sec, ps), OpenSub(sec, ps))
        /\ Applied(sec, Parent(sec, ps), Parent(sec, ps'), Fed) ]_vars

\* C5: in a known section a keyword that the section does not know at any
\* level (FOO) makes the builder fail with an error naming that keyword.
C5_UnknownKeywordFails ==
  [][ (Reads /\ sec \in KnownSections /\ Fed.kw = "FOO") =>
        /\ phase' = "failed"
        /\ err'.kind = "unexpected"
        /\ err'.kw = "FOO" ]_vars

\* the open component lacks one of the fields a Component must have
OpenComponentIncomplete ==
  /\ sec = "COMPONENTS"
  /\ ps.state # <<>>
  /\ \E f \in ComponentRequired : ps.state[1].prototype[f] = None

\* C6 as stated: at the end of the section's lines an open candidate, with
\* its open sub-record, is always appended to the output, as its last
\* element, and the builder does not fail.
C6_AlwaysAppended ==
  [][ (Ends /\ CandidateOpen(sec, ps)) =>
        /\ phase' = "done"
        /\ Output(sec, result'[1]) = Records(sec, ps) ]_vars

\* C6 (amended): at the end of the section's lines an open candidate, with
\* its open sub-record, is appended to the output as its last element and
\* the builder does not fail, except that an open component lacking one of
\* DEVICE, PLACE, LAYER, ROTATION, SHAPE makes the COMPONENTS builder fail
\* with the missing-field error and return no output.
C6_AppendedUnlessIncomplete ==
  [][ (Ends /\ CandidateOpen(sec, ps)) =>
        IF OpenComponentIncomplete
        THEN phase' = "failed" /\ err'.kind = "missing" /\ result' = <<>>
        ELSE /\ phase' = "done"
             /\ Output(sec, result'[1]) = Records(sec, ps)
             /\ Last(Output(sec, result'[1])).name = Last(Tokens(input, EntityKw(sec))) ]_vars

\* a SHAPES section ended with a shape and a sub-record of it open
C6_Witness ==
  /\ sec = "SHAPES"
  /\ phase = "done"
  /\ SubOpen(sec, ps)
  /\ Len(result[1]) = 2
  /\ Last(result[1]).subshapes = ps.state[1].state

\* the attribute lists in reach of an ATTRIBUTE line: of the section, of
\* the open record, of the open sub-record (empty where there is none)
AttrLists(s, st) ==
  [section |-> IF s \in {"HEADER", "BOARD", "PADSTACKS", "SIGNALS"} THEN st.attributes
               ELSE <<>>,
   record |-> CASE s = "PADS" /\ RecordOpen(s, st) -> st.parser_state[1].attributes
                [] s = "DEVICES" /\ RecordOpen(s, st) -> st.state[1].attributes
                [] s = "SHAPES" /\ RecordOpen(s, st) -> st.state[1].shape.attributes
                [] s = "COMPONENTS" /\ RecordOpen(s, st) -> st.state[1].prototype.attributes
                [] OTHER -> <<>>,
   sub |-> IF SubOpen(s, st) THEN OpenSub(s, st).attributes ELSE <<>>]

\* the records and sub-records already closed
Closed(s, st) ==
  CASE s = "BOARD" -> << st.subsections >>
    [] s = "PADS" -> << st.pads >>
    [] s = "PADSTACKS" -> << st.padstacks >>
    [] s = "SIGNALS" -> << st.signals >>
    [] s = "DEVICES" -> << st.devices >>
    [] s = "SHAPES" ->
         << st.shapes, [i \in 1..Len(st.state) |-> st.state[i].shape.subshapes] >>
    [] s = "COMPONENTS" ->
         << st.components, [i \in 1..Len(st.state) |-> st.state[i].prototype.subcomponents] >>
    [] OTHER -> <<>>

Innermost(s, st) ==
  IF SubOpen(s, st) THEN "sub" ELSE IF RecordOpen(s, st) THEN "record" ELSE "section"

\* the line just read was accepted and its attribute went to the list of
\* that level and nowhere else
AttachedAt(level) ==
  /\ phase' = "parsing"
  /\ AttrLists(sec, ps') = [AttrLists(sec, ps) EXCEPT ![level] = Append(@, Fed.p)]
  /\ Closed(sec, ps') = Closed(sec, ps)

\* C7 as stated: in every section an ATTRIBUTE line read while a record or
\* sub-record is open is attached to the innermost open candidate and to
\* nothing else.
C7_InnermostEverywhere ==
  [][ (ReadsGood({"ATTRIBUTE"}) /\ CandidateOpen(sec, ps)) =>
        AttachedAt(Innermost(sec, ps)) ]_vars

\* C7 (amended): in BOARD, PADS, SHAPES, COMPONENTS and DEVICES an ATTRIBUTE
\* line read while a record or sub-record is open is attached to the
\* innermost open candidate and to nothing else; in PADSTACKS and SIGNALS,
\* whose records hold no attributes, it is attached to the section's own
\* attribute list and the open record is left as it was.
C7_InnermostOrSection ==
  [][ (ReadsGood({"ATTRIBUTE"}) /\ CandidateOpen(sec, ps)) =>
        IF sec \in {"PADSTACKS", "SIGNALS"}
        THEN AttachedAt("section") /\ ps'.state = ps.state
        ELSE AttachedAt(Innermost(sec, ps)) ]_vars

\* an attribute attached to the open FID of a component, not to the component
C7_Witness ==
  /\ sec = "COMPONENTS"
  /\ phase = "parsing"
  /\ SubOpen(sec, ps)
  /\ Last(input).kw = "ATTRIBUTE"
  /\ OpenSub(sec, ps).kind = "Fid"
  /\ OpenSub(sec, ps).attributes = << Last(input).p >>
  /\ ps.state[1].prototype.attributes = <<>>

\* C8: with no record open, a well-formed ATTRIBUTE line is accepted in
\* every known section and attached to the section itself.
C8_SectionLevelAttribute ==
  [][ (ReadsGood({"ATTRIBUTE"}) /\ sec \in KnownSections /\ ~CandidateOpen(sec, ps)) =>
        AttachedAt("section") ]_vars

\* a sub-record keyword of BOARD has been read
BoardSubStarted == \E i \in 1..Len(input) : input[i].kw \in EntityKw("BOARD")

\* C9: in BOARD an ATTRIBUTE line read after a CUTOUT, MASK or ARTWORK line
\* is attached to that sub-record (the one the latest such line opened) and
\* not to the board; read before the first such line it is attached to the
\* board and to no sub-record.
C9_BoardAttributeScope ==
  [][ (ReadsGood({"ATTRIBUTE"}) /\ sec = "BOARD") =>
        IF BoardSubStarted
        THEN /\ AttachedAt("sub")
             /\ ps'.attributes = ps.attributes
             /\ OpenSub(sec, ps').name = Last(Tokens(input, EntityKw("BOARD")))
        ELSE /\ AttachedAt("section")
             /\ Records(sec, ps') = <<>> ]_vars

\* the same board with one attribute before its MASK and one after it
C9_Witness ==
  /\ sec = "BOARD"
  /\ phase = "done"
  /\ Len(input) = 3
  /\ input[1].kw = "ATTRIBUTE" /\ input[2].kw = "MASK" /\ input[3].kw = "ATTRIBUTE"
  /\ result[1].attributes = << input[1].p >>
  /\ result[1].subsections[1].attributes = << input[3].p >>

\* a PIN of the open shape is open
PinOpen == sec = "SHAPES" /\ SubOpen(sec, ps) /\ OpenSub(sec, ps).kind = "Pin"

\* the open PIN was closed as it stood: appended to the sub-record list of
\* its shape, which list is subs after the step
PinClosedInto(subs) == subs = Append(SubList(sec, ps), OpenSub(sec, ps))

\* what every reading of C10 shares: PIN, FID, ARTWORK, SHAPE and the end of
\* the section close the open PIN
PinClosedBySiblingOrParent ==
  /\ (ReadsGood(SubKw) /\ PinOpen) =>
       phase' = "parsing" /\ PinClosedInto(SubList(sec, ps'))
  /\ (ReadsGood({"SHAPE"}) /\ PinOpen) =>
       phase' = "parsing" /\ PinClosedInto(Last(ps'.shapes).subshapes)
  /\ (Ends /\ PinOpen) =>
       phase' = "done" /\ PinClosedInto(Last(result'[1]).subshapes)

\* lines from..Len(lines) are all PIN lines
PinRun(lines, from) == \A i \in from..Len(lines) : lines[i].kw = "PIN"

\* k PIN lines in a row at the end of the shape give k Pin entries in order
ConsecutivePins ==
  (sec = "SHAPES" /\ result # <<>>) =>
    \A from \in 2..Len(input) :
      (input[from - 1].kw = "SHAPE" /\ PinRun(input, from)) =>
        /\ Names(Last(result[1]).subshapes) = [i \in 1..(Len(input) - from + 1) |-> input[from + i - 1].p]
        /\ \A i \in 1..Len(Last(result[1]).subshapes) :
             Last(result[1]).subshapes[i] = SubShape("Pin", input[from + i - 1].p)

\* C10 as stated: an open PIN is closed by the next PIN, FID, ARTWORK,
\* ATTRIBUTE or SHAPE line or by the end of the section; k PIN lines in a
\* row yield k entries.
C10_PinClosedByAttribute ==
  /\ [][ /\ PinClosedBySiblingOrParent
         /\ (ReadsGood({"ATTRIBUTE"}) /\ PinOpen) =>
              phase' = "parsing" /\ PinClosedInto(SubList(sec, ps')) ]_vars
  /\ []ConsecutivePins

\* C10 (amended): an open PIN is closed by the next PIN, FID, ARTWORK or
\* SHAPE line or by the end of the section; an ATTRIBUTE line does not close
\* it but is attached to it; k PIN lines in a row yield exactly k entries,
\* in file order, never a merged record.
C10_PinClosedBySibling ==
  /\ [][ /\ PinClosedBySiblingOrParent
         /\ (ReadsGood({"ATTRIBUTE"}) /\ PinOpen) =>
              /\ AttachedAt("sub")
              /\ PinOpen'
              /\ OpenSub(sec, ps').name = OpenSub(sec, ps).name ]_vars
  /\ []ConsecutivePins

\* two PIN lines in a row gave two entries
C10_Witness ==
  /\ sec = "SHAPES"
  /\ phase = "done"
  /\ Len(input) = 3
  /\ input[2].kw = "PIN" /\ input[3].kw = "PIN"
  /\ Names(result[1][1].subshapes) = << input[2].p, input[3].p >>

\* the optional scalar keywords of the record kinds that have them
OptionalScalars(s) ==
  CASE s = "DEVICES" -> DeviceScalars
    [] s = "COMPONENTS" -> {"SHEET"}
    [] OTHER -> {}

\* the open record of a DEVICES or COMPONENTS builder
OpenRecord(s, st) == IF s = "COMPONENTS" THEN st.state[1].prototype ELSE st.state[1]

\* C11: in an open DEVICE record (PART, TYPE, STYLE, PACKAGE, PINCOUNT,
\* VALUE, TOL, NTOL, PTOL, VOLTS, DESC) or COMPONENT record (SHEET), the
\* first line of an optional scalar keyword sets the field to its value, and
\* every later line of that keyword, whatever its parameter, is accepted and
\* leaves the field at the value of the first.
C11_FirstOccurrenceWins ==
  [][ (Reads /\ RecordOpen(sec, ps) /\ Fed.kw \in OptionalScalars(sec)) =>
        IF OpenRecord(sec, ps)[Fed.kw] = None
        THEN ~Bad(Fed) => /\ phase' = "parsing"
                          /\ OpenRecord(sec, ps')[Fed.kw] = Fed.p
        ELSE /\ phase' = "parsing"
             /\ RecordOpen(sec, ps')
             /\ OpenRecord(sec, ps')[Fed.kw] = OpenRecord(sec, ps)[Fed.kw] ]_vars

\* a device parsed from DEVICE, PART, PART with two different part names
\* holds the first one
C11_Witness ==
  /\ sec = "DEVICES" /\ phase = "done" /\ Len(input) = 3
  /\ input[1].kw = "DEVICE" /\ input[2].kw = "PART" /\ input[3].kw = "PART"
  /\ input[3].p \notin {None, input[2].p}
  /\ Len(result[1]) = 1 /\ result[1][1].PART = input[2].p

\* C12: a HEIGHT line read in a SHAPE record whose height is already set is
\* accepted and leaves the height at the value of the first HEIGHT line.
C12_HeightFirstWins ==
  [][ (Reads /\ sec = "SHAPES" /\ RecordOpen(sec, ps) /\ Fed.kw = "HEIGHT"
         /\ ps.state[1].shape.height # None) =>
        /\ phase' = "parsing"
        /\ RecordOpen(sec, ps')
        /\ ps'.state[1].shape.height = ps.state[1].shape.height ]_vars

\* the number of lines whose keyword is in kws
Count(lines, kws) == Cardinality({j \in 1..Len(lines) : lines[j].kw \in kws})

\* the index of the i-th line whose keyword is in kws
Start(lines, kws, i) ==
  CHOOSE j \in 1..Len(lines) :
    lines[j].kw \in kws /\ Count(SubSeq(lines, 1, j), kws) = i

\* the lines before the first line whose keyword is in kws
Before(lines, kws) ==
  IF Count(lines, kws) = 0 THEN lines ELSE SubSeq(lines, 1, Start(lines, kws, 1) - 1)

\* the lines that follow the i-th line whose keyword is in kws, up to the
\* next such line
Segment(lines, kws, i) ==
  SubSeq(lines, Start(lines, kws, i) + 1,
         IF i < Count(lines, kws) THEN Start(lines, kws, i + 1) - 1 ELSE Len(lines))

\* keywords that close the open sub-record and are then read by the record:
\* the field arms of a component; a shape has none (INSERT is taken by the
\* section before the shape sees it)
Closers(s) == IF s = "COMPONENTS" THEN ComponentFirstWins \cup {"TEXT"} ELSE {}

\* the lines read while the sub-record opened just before them is open, and
\* the lines from the one that closes it on
UntilClosed(lines, closers) ==
  LET n == Cardinality({k \in 1..Len(lines) : \A m \in 1..k : lines[m].kw \notin closers})
  IN [run |-> SubSeq(lines, 1, n), rest |-> SubSeq(lines, n + 1, Len(lines))]

\* the lines of a SHAPE or COMPONENT record read while no sub-record is
\* open: those before the first sub-record, and after each sub-record those
\* from the line that closes it on
RecordLevel(seg, subkws, closers) ==
  Before(seg, subkws) \o
    Concat([j \in 1..Count(seg, subkws) |->
              UntilClosed(Segment(seg, subkws, j), closers).rest])

\* C13: in a parsed section every multi-valued field holds the values of its
\* lines, all of them and in the order of the lines: a device's PINDESC and
\* PINFUNCT lines, a signal's NODE lines, a padstack's PAD lines, a
\* component's TEXT lines, and the ATTRIBUTE lines of every record and
\* sub-record that holds attributes.
C13_FileOrder ==
  phase = "done" =>
    LET recs == Output(sec, result[1])
        Seg(i) == Segment(input, EntityKw(sec), i)
    IN /\ Len(recs) = Count(input, EntityKw(sec))
       /\ \A i \in 1..Len(recs) :
            /\ sec = "DEVICES" =>
                 /\ recs[i].pin_descriptions = Tokens(Seg(i), {"PINDESC"})
                 /\ recs[i].pin_functions = Tokens(Seg(i), {"PINFUNCT"})
            /\ sec = "SIGNALS" => recs[i].nodes = Tokens(Seg(i), {"NODE"})
            /\ sec = "PADSTACKS" => recs[i].pads = Tokens(Seg(i), {"PAD"})
            /\ sec = "COMPONENTS" => recs[i].texts = Tokens(Seg(i), {"TEXT"})
            /\ sec \in {"BOARD", "PADS", "DEVICES"} =>
                 recs[i].attributes = Tokens(Seg(i), {"ATTRIBUTE"})
            /\ sec \in {"SHAPES", "COMPONENTS"} =>
                 LET subs == SubRecordsOf(sec, <<recs[i]>>)
                 IN /\ recs[i].attributes =
                         Tokens(RecordLevel(Seg(i), SubEntityKw(sec), Closers(sec)), {"ATTRIBUTE"})
                    /\ Len(subs) = Count(Seg(i), SubEntityKw(sec))
                    /\ \A j \in 1..Len(subs) :
                         subs[j].attributes =
                           Tokens(UntilClosed(Segment(Seg(i), SubEntityKw(sec), j),
                                              Closers(sec)).run,
                                  {"ATTRIBUTE"})

\* a signal parsed from SIGNAL and two NODE lines with the same text holds
\* that node twice
C13_Witness ==
  /\ sec = "SIGNALS" /\ phase = "done" /\ Len(input) = 3
  /\ input[1].kw = "SIGNAL" /\ input[2].kw = "NODE" /\ input[3] = input[2]
  /\ result[1].signals[1].nodes = <<input[2].p, input[2].p>>

\* C14: in SHAPES an INSERT line read while no shape is open is accepted and
\* sets the default insertion style, leaving the shapes as they are; a SHAPE
\* line opens a shape whose insert field is the default held at that moment.
C14_DefaultInsert ==
  [][ sec = "SHAPES" =>
        /\ (ReadsGood({"INSERT"}) /\ ~RecordOpen(sec, ps)) =>
              /\ phase' = "parsing"
              /\ ps'.insert = Fed.p
              /\ ps'.state = <<>> /\ ps'.shapes = ps.shapes
        /\ ReadsGood({"SHAPE"}) =>
              /\ phase' = "parsing"
              /\ ps'.insert = ps.insert
              /\ ps'.state = << ShapeParser(Fed.p, ps.insert) >> ]_vars

\* INSERT then SHAPE: the parsed shape has the insertion style of the
\* INSERT line
C14_Witness ==
  /\ sec = "SHAPES" /\ phase = "done" /\ Len(input) = 2
  /\ input[1].kw = "INSERT" /\ input[2].kw = "SHAPE"
  /\ Len(result[1]) = 1
  /\ result[1][1].insert = input[1].p /\ input[1].p # None

ArtworkOpen(st) == st.parser_state # <<>> /\ st.parser_state[1].kind = "Artwork"

\* C15: in BOARD a well-formed TRACK, FILLED or TEXT line is accepted, and
\* added to the open Artwork, exactly when an Artwork is the open
\* sub-record; with no sub-record open, or with a Cutout or Mask open,
\* decoding fails with the diagnostic of that keyword.  (A line whose
\* parameter is malformed is accepted in no state: it fails with the
\* parameter's parse error.)
C15_ArtworkOnly ==
  [][ (sec = "BOARD" /\ Reads /\ Fed.kw \in {"TRACK", "FILLED", "TEXT"}) =>
        IF Bad(Fed) THEN phase' = "failed" /\ err' = GrammarErr
        ELSE IF ArtworkOpen(ps)
        THEN /\ phase' = "parsing"
             /\ ArtworkOpen(ps')
             /\ ps'.parser_state[1].components =
                  Append(ps.parser_state[1].components, Elem(ArtworkOnlyKind(Fed.kw), Fed.p))
        ELSE /\ phase' = "failed"
             /\ err' = ArtworkOnlyErr(Fed.kw)
             /\ ps' = ps ]_vars

\* a well-formed FILLED line read while a Mask is open was refused with the
\* FILLED diagnostic
C15_Witness ==
  /\ sec = "BOARD" /\ phase = "failed" /\ Len(input) = 2
  /\ input[1].kw = "MASK" /\ input[2].kw = "FILLED" /\ ~Bad(input[2])
  /\ ps.parser_state[1].kind = "Mask"
  /\ err = ArtworkOnlyErr("FILLED")

\* the required header keywords that no line of the section carries
MissingFrom(lines) == {f \in HeaderFields : Count(lines, {f}) = 0}

\* C16: when the lines of a HEADER section end and exactly one of GENCAD,
\* USER, DRAWING, REVISION, UNITS, ORIGIN, INTERTRACK occurs in none of them,
\* parsing fails, no header is produced and the error names that keyword.
C16_MissingHeaderKeyword ==
  [][ (sec = "HEADER" /\ Ends /\ Cardinality(MissingFrom(input)) = 1) =>
        /\ phase' = "failed"
        /\ result' = <<>>
        /\ err'.kind = "missing"
        /\ MissingFrom(input) = {err'.kw} ]_vars

\* a header with every required keyword but ORIGIN, and two more lines,
\* was refused with "missing ORIGIN"
C16_Witness ==
  /\ sec = "HEADER" /\ phase = "failed" /\ Len(input) = 8
  /\ MissingFrom(input) = {"ORIGIN"}
  /\ \A i \in 1..Len(input) : ~Bad(input[i])
  /\ err = [kind |-> "missing", ctx |-> "header", kw |-> "ORIGIN"]

\* the required fields the open component has not been given
Unset(st) == {f \in ComponentRequired : st.state[1].prototype[f] = None}

\* C17: when a COMPONENT record that lacks one of DEVICE, PLACE, LAYER,
\* ROTATION, SHAPE is flushed, by the next COMPONENT line or by the end of
\* the section, parsing fails and the error names a field that is missing.
C17_MissingFieldNamed ==
  [][ (sec = "COMPONENTS" /\ RecordOpen(sec, ps) /\ Unset(ps) # {}
         /\ (Ends \/ (Reads /\ Fed.kw = "COMPONENT"))) =>
        /\ phase' = "failed"
        /\ err'.kind = "missing"
        /\ err'.kw \in Unset(ps) ]_vars

\* C18: a parsed file holds exactly one entry per block of the file, in the
\* order of the blocks, each built from the lines of its own block alone;
\* blocks of the same name give separate entries.
C18_OneEntryPerBlock ==
  phase = "parsed" =>
    /\ Len(sections) = Len(file)
    /\ \A i \in 1..Len(file) :
         /\ sections[i].variant = Variant(file[i].name)
         /\ << sections[i].value >> = ParseSection(file[i].name, file[i].parameters).value

\* a parsed file of three blocks whose first two carry the same name and
\* different lines
C18_Witness ==
  /\ phase = "parsed" /\ Len(file) = 3 /\ Len(sections) = 3
  /\ file[1].name = file[2].name
  /\ file[1].parameters # file[2].parameters
  /\ sections[1] # sections[2]

\* the opaque record of a block: its name and its keyword/parameter pairs
Opaque(block) ==
  [name |-> block.name,
   statements |-> [i \in 1..Len(block.parameters) |->
                     [keyword |-> block.parameters[i].kw,
                      parameter |-> block.parameters[i].p]]]

IsOther(block) == block.name \notin KnownSections

\* C19: building the entry of a block whose name is none of the eight
\* recognized names never fails and adds, behind the entries of the blocks
\* before it, an Unknown entry with the block's name and its
\* keyword/parameter pairs as they are and in their order; in a parsed file
\* the entry stands at the position of its block.
C19_OtherNamesKept ==
  /\ [][ (phase = "building" /\ ps # <<>> /\ IsOther(Head(ps))) =>
          /\ phase' = "building"
          /\ sections' = Append(sections, ParsedSection("Unknown", Opaque(Head(ps)))) ]_vars
  /\ [](phase = "parsed" =>
          \A i \in 1..Len(file) :
            IsOther(file[i]) =>
              i <= Len(sections) /\ sections[i] = ParsedSection("Unknown", Opaque(file[i])))

\* a parsed file whose second block, between two recognized ones, has an
\* unrecognized name and two lines
C19_Witness ==
  /\ phase = "parsed" /\ Len(file) = 3
  /\ ~IsOther(file[1]) /\ IsOther(file[2]) /\ ~IsOther(file[3])
  /\ Len(file[2].parameters) = 2
  /\ sections[2].variant = "Unknown"
  /\ sections[2].value.name = file[2].name
  /\ Len(sections[2].value.statements) = 2

\* the text a section of the given name and lines is read from
SectionInput(name, lines) == << Delim("$" \o name) >> \o lines \o << Delim("$END" \o name) >>

\* C20: the text serialized from the Unknown record of a section with an
\* unrecognized name is, line for line, the text the section was read from.
C20_UnknownPassthrough ==
  (sec \notin KnownSections /\ phase \in {"serialized", "reparsed", "reserialized"}) =>
    text = SectionInput(sec, input)

Mismatched(block) == block.name # block.end

\* C21: a file that holds, at any position, a block whose `$END` name
\* differs from its `$` name is refused: the parse fails as soon as that
\* block is met, no entry is built and no document is returned.
C21_MismatchedEndFails ==
  (\E i \in 1..Len(file) : Mismatched(file[i])) =>
    phase = "failed" /\ err \in {NomErr, UnparsedErr} /\ sections = <<>>

\* the third block of a file, behind two well-formed blocks, closes with
\* another name and the file was refused
C21_Witness ==
  /\ phase = "failed" /\ Len(file) = 3
  /\ ~Mismatched(file[1]) /\ ~Mismatched(file[2]) /\ Mismatched(file[3])
  /\ err = UnparsedErr

\* the block breaks a rule: its tags differ, or its builder refuses its lines
Violates(block) ==
  Mismatched(block) \/ ParseSection(block.name, block.parameters).err # NoErr

\* C22: a file with a block that breaks a rule gives the caller no document,
\* and a failed parse gives an error and nothing else; a document is
\* returned only from a parse in which every block of the file was built.
C22_NoPartialResult ==
  /\ (\E i \in 1..Len(file) : Violates(file[i])) => result = <<>> /\ phase # "parsed"
  /\ phase = "failed" => result = <<>> /\ err # NoErr
  /\ result # <<>> => phase = "parsed" /\ Len(result[1]) = Len(file)

\* two blocks were built, the builder of the third refused its lines, and
\* the caller has an error and no document
C22_Witness ==
  /\ phase = "failed" /\ Len(file) = 3 /\ Len(sections) = 2
  /\ ~Violates(file[1]) /\ ~Violates(file[2])
  /\ ~Mismatched(file[3]) /\ Violates(file[3])
  /\ result = <<>> /\ err # NoErr

\* the keywords of a section that have a parameter grammar
GrammarKw(s) == Keywords(s) \ {"FOO"}

\* C23: in a known section, a line whose parameter does not match the
\* grammar of its keyword makes the parse fail, whatever was read before it.
C23_MalformedLineFails ==
  [][ (Reads /\ sec \in KnownSections /\ Fed.kw \in GrammarKw(sec) /\ Bad(Fed)) =>
        phase' = "failed" ]_vars

OnlyOf(t, cs) == \A i \in 1..Len(t) : t[i] \in cs

\* C24: KeywordParam::parse accepts a text exactly when it is one or more
\* uppercase letters, one space, any characters other than CR and LF (none
\* at all, spaces and quotes included), and a line terminator; the keyword
\* is then the leading run of uppercase letters, one space is consumed, and
\* the parameter is every character after it up to the terminator,
\* unchanged.
C24_KeywordSpaceParameter ==
  phase = "line" =>
    LET r == result[1]
        k == Run(text, Upper)
        rest == Drop(text, k + 1)
        n == Run(rest, Chars \ {CR, LF})
        term == Drop(rest, n)
        nl == Run(term, {CR, LF})
    IN /\ r.ok <=> /\ k >= 1
                    /\ Len(text) > k /\ text[k + 1] = " "
                    /\ \E i \in 1..nl : term[i] = LF
       /\ r.ok => /\ r.keyword = SubSeq(text, 1, k)
                   /\ r.parameter = SubSeq(rest, 1, n)
                   /\ r.remaining = Drop(term, nl)
                   /\ text = r.keyword \o <<" ">> \o r.parameter
                                \o SubSeq(term, 1, nl) \o r.remaining
       /\ ~r.ok => r.remaining = text

\* the line `A  q` + LF: keyword A, parameter ` q`
C24_Witness ==
  /\ phase = "line" /\ result[1].ok
  /\ text = <<"A", " ", " ", "q", LF>>
  /\ result[1].keyword = <<"A">>
  /\ result[1].parameter = <<" ", "q">>

\* the text with its runs of CR and LF each replaced by one LF: all of them,
\* or only those that hold an LF
RECURSIVE Normalized(_, _)
Normalized(t, all) ==
  IF t = <<>> THEN <<>>
  ELSE IF t[1] \in {CR, LF}
  THEN LET n == Run(t, {CR, LF})
       IN (IF all \/ \E i \in 1..n : t[i] = LF THEN <<LF>> ELSE SubSeq(t, 1, n))
            \o Normalized(Drop(t, n), all)
  ELSE <<t[1]>> \o Normalized(Tail(t), all)

\* the first run of CR and LF in the text
FirstTerminator(t) ==
  LET a == Drop(t, Run(t, Chars \ {CR, LF})) IN SubSeq(a, 1, Run(a, {CR, LF}))

\* C25 as stated: the lines read from a text are those read from the same
\* text with every run of CR and LF, a run of CR alone included, replaced by
\* one LF.
C25_AnyTerminator ==
  phase = "lines" =>
    result[1].parameters = Many0KeywordParam(Normalized(text, TRUE)).parameters

\* C25 (amended): the lines read from a text are those read from the same
\* text with every run of CR and LF that holds an LF replaced by one LF; a
\* line that ends in CR alone is not read.
C25_TerminatorWithLF ==
  phase = "lines" =>
    /\ result[1].parameters = Many0KeywordParam(Normalized(text, FALSE)).parameters
    /\ (FirstTerminator(text) # <<>> /\ OnlyOf(FirstTerminator(text), {CR})) =>
          result[1].parameters = <<>>

\* two lines, the first ended by CR LF and a blank line, are both read
C25_Witness ==
  /\ phase = "lines"
  /\ text = <<"A", " ", CR, LF, LF, "A", " ">> \/ text = <<"A", " ", CR, LF, "A", " ", LF>>
  /\ Len(result[1].parameters) = 2
  /\ result[1].remaining = <<>>

\* the entry built from one block, read on its own
EntryOf(block) ==
  ParsedSection(Variant(block.name), ParseSection(block.name, block.parameters).value[1])

\* what a call has made of its file, told from the file alone
FromItsFile(call) ==
  /\ call.phase = "parsed" =>
       /\ \A i \in 1..Len(call.file) : ~Violates(call.file[i])
       /\ call.result = << [i \in 1..Len(call.file) |-> EntryOf(call.file[i])] >>
  /\ call.phase = "failed" =>
       /\ call.result = <<>>
       /\ call.file = <<>> \/ \E i \in 1..Len(call.file) : Violates(call.file[i])
  /\ call.phase \in {"building", "parsed"} =>
       call.sections = [i \in 1..Len(call.sections) |-> EntryOf(call.file[i])]
  /\ call.phase = "lexing" => call.sections = <<>> /\ call.result = <<>>

\* C26: of two calls that run one after the other or interleaved, each
\* returns what its own file alone determines: the entries built from its
\* own blocks, each block read from a fresh builder, or an error when one of
\* its own blocks breaks a rule.
C26_CallsIndependent == FromItsFile(Running) /\ FromItsFile(other)

\* one call has parsed a file whose SHAPES block sets a default insertion
\* style; the other has parsed a file whose SHAPES block opens a shape, and
\* that shape has no insertion style
C26_Witness ==
  /\ other.phase = "parsed" /\ phase = "parsed"
  /\ other.file = <<Block("SHAPES", "SHAPES", <<Line("INSERT", 1)>>)>>
  /\ file = <<Block("SHAPES", "SHAPES", <<Line("SHAPE", 1)>>)>>
  /\ Len(result[1]) = 1
  /\ result[1][1].value[1].insert = None

(***************************************************************************)
(* The work done per line: the transition rules a line is handed to.  The  *)
(* loop of a section builder hands each line to its rule once; the rule of *)
(* a section with a record parser hands the lines it does not take itself  *)
(* on to the rule of the open record (`_ => parser.ingest(kp)`,            *)
(* `_ => device.update(kp)`), which handles the sub-record as well.        *)
(***************************************************************************)
\* the keywords the section's rule takes itself while a record is open
TakenBySection(s) ==
  CASE s \in {"PADSTACKS", "SIGNALS"} -> EntityKw(s) \cup {"ATTRIBUTE"}
    [] s = "SHAPES" -> {"SHAPE", "INSERT"}
    [] s \in {"COMPONENTS", "DEVICES"} -> EntityKw(s)
    [] OTHER -> {}

\* the rules with the line handed back to the section's rule after the
\* record's rule has flushed, and from there to the record's rule again
DispatchesAgain(s, st, kp) ==
  IF s \in {"PADSTACKS", "SIGNALS", "SHAPES", "COMPONENTS", "DEVICES"}
       /\ st.state # <<>> /\ kp.kw \notin TakenBySection(s)
  THEN <<"section", "record", "section", "record">>
  ELSE <<"section">>

\* the rules a line is handed to, in the order of the calls
Dispatches(s, st, kp) ==
  IF s \in {"PADSTACKS", "SIGNALS", "SHAPES", "COMPONENTS", "DEVICES"}
       /\ st.state # <<>> /\ kp.kw \notin TakenBySection(s)
  THEN <<"section", "record">>
  ELSE <<"section">>

\* a section builder or the tokenizer at work
ParseSpec == (Init \/ LexInit) /\ [][Next \/ LexNext]_vars

\* the levels of records a section nests: records, and sub-records in them
NestingLevels(s) ==
  (IF EntityKw(s) # {} THEN 1 ELSE 0) + (IF SubEntityKw(s) # {} THEN 1 ELSE 0)

LeadingDigits(t) ==
  LET a == IF t # <<>> /\ t[1] = "+" THEN Tail(t) ELSE t
  IN SubSeq(a, 1, Run(a, Digit))

\* C29: p_integer decodes a text exactly when it begins with an optional `+`
\* and digits that denote a number from 0 to 65535, and the value is that
\* number; a text that begins with `-`, and digits that denote more than
\* 65535, are failures.
C29_IntegerRange ==
  phase = "integer" =>
    LET ds == LeadingDigits(text)
    IN /\ result[1].ok <=> (ds # <<>> /\ Decimal(ds) \in 0..U16Max)
       /\ result[1].ok => result[1].value = << Decimal(ds) >>
       /\ (text # <<>> /\ text[1] = "-") => ~result[1].ok

\* 65536, written with its sign, was refused
C29_Witness ==
  /\ phase = "integer"
  /\ text = <<"+", "6", "5", "5", "3", "6">>
  /\ ~result[1].ok

\* the text begins, after an optional sign, with `nan`, `inf` or `infinity`
Exceptional(t) ==
  LET a == IF t # <<>> /\ t[1] \in Sign THEN Tail(t) ELSE t
  IN \E i \in 1..Len(Exceptions) : Tag(a, Exceptions[i].tag)

\* C30: number fails on a text that begins with `nan`, `inf` or `infinity`,
\* signed or not, so no number it decodes is a NaN, and none is an infinity
\* read from one of these tokens.
C30_ExceptionsRejected ==
  phase = "number" =>
    /\ Exceptional(text) => ~result[1].ok
    /\ result[1].ok =>
         /\ result[1].value[1] # "nan"
         /\ result[1].value[2][1] \in Sign \cup Digit \cup {"."}

\* number was applied to `infinity` and failed
C30_Witness ==
  /\ phase = "number"
  /\ text = <<"i", "n", "f", "i", "n", "i", "t", "y">>
  /\ ~result[1].ok

\* the digits a text holds right after its first n characters
DigitsAt(t, n) == SubSeq(Drop(t, n), 1, Run(Drop(t, n), Digit))

\* what a parameterized name decodes to: the variant with the number its
\* digits denote, or a failure when the number does not fit
Parameterized(r, variant, ds) ==
  IF Decimal(ds) <= U16Max
  THEN r.ok /\ r.value = << variant, Decimal(ds) >>
  ELSE ~r.ok

\* C28: a primitive grammar function returns the value its text denotes or
\* a failure.  A parameterized layer name is a name followed at once by
\* digits, a user dimension is a name, spaces and a positive integer: each
\* decodes to its variant with that number, and fails when the digits
\* denote more than 65535.
C28_ValueOrFailure ==
  /\ phase = "layer" =>
       \A i \in 1..Len(ParamLayers) :
         LET n == Len(ParamLayers[i].tag)
         IN (Tag(text, ParamLayers[i].tag) /\ DigitsAt(text, n) # <<>>) =>
              Parameterized(result[1], ParamLayers[i].variant, DigitsAt(text, n))
  /\ phase = "dimension" =>
       \A i \in 1..Len(UserDimensions) :
         LET n == Len(UserDimensions[i].tag)
             b == Drop(text, n)
             m == n + spaces(b)
         IN (Tag(text, UserDimensions[i].tag) /\ spaces(b) > 0
               /\ DigitsAt(text, m) # <<>>) =>
              Parameterized(result[1], UserDimensions[i].variant, DigitsAt(text, m))

\* the text of the numbers toks, joined by single spaces
RECURSIVE JoinOf(_)
JoinOf(toks) ==
  IF toks = <<>> THEN <<>>
  ELSE IF Len(toks) = 1 THEN toks[1]
  ELSE JoinOf(SubSeq(toks, 1, Len(toks) - 1)) \o <<" ">> \o toks[Len(toks)]

\* the fields of a text: the pieces between its spaces
RECURSIVE Fields(_)
Fields(t) ==
  LET n == Cardinality({k \in 1..Len(t) : \A m \in 1..k : t[m] # " "})
  IN IF n = Len(t) THEN << t >>
     ELSE << SubSeq(t, 1, n) >> \o Fields(SubSeq(t, n + 2, Len(t)))

\* the text is n numbers of ArcTokens with single spaces between them
ArcOf(t, n) == Len(Fields(t)) = n /\ \A k \in 1..n : Fields(t)[k] \in ArcTokens

\* the value number gives each token
ValuesOf(toks) == [k \in 1..Len(toks) |-> number(toks[k]).value]

\* C31: three coordinate pairs decode as a circular arc of that start, end
\* and center; three coordinate pairs and two numbers decode as an
\* elliptical arc whose major and minor radius are the two numbers.
C31_ArcArity ==
  phase = "arc" =>
    LET v == ValuesOf(Fields(text))
    IN /\ ArcOf(text, 6) =>
            /\ result[1].ok /\ result[1].remaining = <<>>
            /\ result[1].value = NewCircular(v)
       /\ ArcOf(text, 8) =>
            /\ result[1].ok /\ result[1].remaining = <<>>
            /\ result[1].value.variant = "Elliptical"
            /\ result[1].value.start = XYRef(v[1], v[2])
            /\ result[1].value.end = XYRef(v[3], v[4])
            /\ result[1].value.center = XYRef(v[5], v[6])
            /\ result[1].value.major_radius = v[7]
            /\ result[1].value.minor_radius = v[8]

\* eight numbers were decoded as an elliptical arc
C31_Witness ==
  /\ phase = "arc"
  /\ text = JoinOf(<< <<"5">>, <<"-", "3">>, <<"5">>, <<"5">>, <<"5">>, <<"5">>,
                      <<"5">>, <<"-", "3">> >>)
  /\ result[1].ok
  /\ result[1].value.variant = "Elliptical"
  /\ result[1].value.minor_radius[2] = <<"-", "3">>

\* the slots after the loop over a document
RECURSIVE SlotsOf(_)
SlotsOf(doc) ==
  IF doc = <<>> THEN NoSections
  ELSE MatchSection(SlotsOf(SubSeq(doc, 1, Len(doc) - 1)), doc[Len(doc)])

IsNeeded(section) == section.variant \notin Unneeded

HasHeader(doc) == \E k \in 1..Len(doc) : doc[k].variant = "Header"

\* C32: interpretation fails exactly when the document holds no HEADER
\* section, and the value returned for a document is the value returned for
\* it with its Board, Signals and Unknown sections taken out.
C32_HeaderRequired ==
  /\ phase = "failed" => (~HasHeader(sections) /\ err = MissingHeaderErr)
  /\ phase = "interpreted" =>
       /\ HasHeader(sections)
       /\ result[1] = Interpreted(SlotsOf(SelectSeq(sections, IsNeeded)))

\* a document of a header, a board and pads was interpreted, the board
\* being read after the header
C32_Witness ==
  /\ phase = "interpreted"
  /\ Len(sections) = 3
  /\ sections[1].variant = "Header"
  /\ sections[2].variant = "Board"
  /\ sections[3].variant = "Pads"
  /\ DOMAIN result[1].pads = {"a", "b"}

\* C39: after a successful interpretation every record of every Pads,
\* Padstacks, Shapes, Components and Devices section of the document is in
\* the table of its kind, under its name and with its contents.
C39_EveryRecordFound ==
  phase = "interpreted" =>
    \A k \in 1..Len(sections) :
      sections[k].variant \in TableVariants =>
        \A m \in 1..Len(sections[k].value) :
          LET rec == sections[k].value[m]
              table == result[1][TableOf[sections[k].variant]]
          IN rec.name \in DOMAIN table /\ table[rec.name] = rec

\* a text of letters and spaces
Plain(t) == \A k \in 1..Len(t) : t[k] \notin {"\"", "\\", CR, LF}

\* C33: the name of a DEVICE or PART line is its whole parameter, spaces
\* included: the text itself when it is not quoted, the text between the
\* quotes when it is.
C33_WholeName ==
  phase = "part_name" =>
    /\ Plain(text) => (result[1].ok /\ result[1].value = text)
    /\ (Len(text) >= 2 /\ text[1] = "\"" /\ text[Len(text)] = "\""
          /\ Plain(SubSeq(text, 2, Len(text) - 1))) =>
         (result[1].ok /\ result[1].value = SubSeq(text, 2, Len(text) - 1))

\* the list the section's records are flushed to
Flushed(s, st) ==
  CASE s = "BOARD" -> st.subsections
    [] s = "PADS" -> st.pads
    [] s = "PADSTACKS" -> st.padstacks
    [] s = "SIGNALS" -> st.signals
    [] s = "DEVICES" -> st.devices
    [] s = "SHAPES" -> st.shapes
    [] s = "COMPONENTS" -> st.components
    [] s = "UNKNOWN" -> st.statements
    [] OTHER -> <<>>

\* list b is list a, or list a with one element appended
GrowsByAppend(a, b) ==
  Len(b) \in {Len(a), Len(a) + 1} /\ SubSeq(b, 1, Len(a)) = a

\* C34: a line read leaves every flushed record as it was: the section's
\* list after the line is the list before it, or that list with one record
\* appended, and so is the sub-record list of a record that stays open; the
\* list returned at the end of the section begins with the flushed records.
C34_FlushedNeverChanged ==
  [][ /\ (Reads /\ phase' = "parsing") =>
           /\ GrowsByAppend(Flushed(sec, ps), Flushed(sec, ps'))
           /\ (sec \in {"SHAPES", "COMPONENTS"} /\ RecordOpen(sec, ps)
                 /\ Flushed(sec, ps') = Flushed(sec, ps)) =>
                /\ RecordOpen(sec, ps')
                /\ GrowsByAppend(SubList(sec, ps), SubList(sec, ps'))
      /\ (Ends /\ phase' = "done" /\ sec \notin {"HEADER", "UNKNOWN"}) =>
           GrowsByAppend(Flushed(sec, ps), Output(sec, result'[1])) ]_vars

\* two pads were flushed one after the other and a third is open
C34_Witness ==
  /\ sec = "PADS" /\ phase = "parsing"
  /\ Len(ps.pads) = 2 /\ ps.pads[1].name # ps.pads[2].name
  /\ RecordOpen(sec, ps)

\* the sections whose lines are fields of records
RecordSections == {"PADS", "PADSTACKS", "DEVICES", "SHAPES", "COMPONENTS", "SIGNALS"}

\* the keywords a section takes with no record open: the one that opens a
\* record, ATTRIBUTE, and in SHAPES the INSERT that sets the default
WithoutRecord(s) ==
  EntityKw(s) \cup {"ATTRIBUTE"} \cup (IF s = "SHAPES" THEN {"INSERT"} ELSE {})

\* C35: in a section of records, a line read while no record is open whose
\* keyword neither opens a record nor is ATTRIBUTE fails the section with an
\* unexpected-keyword error.
C35_FieldBeforeRecordFails ==
  [][ (Reads /\ sec \in RecordSections /\ ~RecordOpen(sec, ps)
         /\ Fed.kw \notin WithoutRecord(sec)) =>
        (phase' = "failed" /\ err'.kind = "unexpected" /\ err'.kw = Fed.kw) ]_vars

\* C36: in SHAPES, a well-formed INSERT line read while a shape is open
\* sets the insert field of that shape and leaves the section's default,
\* the insert field a later shape is opened with, as it was.
C36_InsertOfOpenShape ==
  [][ (sec = "SHAPES" /\ ReadsGood({"INSERT"}) /\ RecordOpen(sec, ps)) =>
        /\ phase' = "parsing"
        /\ ps'.state[1].shape.insert = Fed.p
        /\ ps'.insert = ps.insert ]_vars

\* C37: for every shape of a parsed SHAPES section that has a sub-record
\* and an attribute of its own, the reparse of the section's text succeeds
\* and gives a shape with those attributes, whose last sub-record has the
\* attributes it had.
C37_ShapeAttributesKept ==
  (sec = "SHAPES" /\ phase = "reparsed") =>
    \A i \in 1..Len(result[1]) :
      (result[1][i].subshapes # <<>> /\ result[1][i].attributes # <<>>) =>
        /\ reparsed[1].err = NoErr
        /\ Len(reparsed[1].value[1]) = Len(result[1])
        /\ reparsed[1].value[1][i].attributes = result[1][i].attributes
        /\ Last(reparsed[1].value[1][i].subshapes).attributes
             = Last(result[1][i].subshapes).attributes

\* C38: an ARC parameter decodes to an arc, which its caller keeps, only
\* when no text is left after the arc: a parameter with surplus text after
\* the numbers of the arc, a seventh number after a circular arc among
\* them, gives no value and fails the parse.
C38_SurplusRejected ==
  phase = "arc" =>
    /\ result[1].ok => result[1].remaining = <<>>
    /\ ArcOf(text, 7) => ~result[1].ok

====
